---- MODULE Spec2Model ----
(***************************************************************************)
(* A model of ArcadeRS: the main loop (phi::spawn), the event pump, the    *)
(* views (GameView, ShipView, the main menu) and the entities of GameView. *)
(*                                                                         *)
(* Units.  The program computes in f64; the model computes in exact        *)
(* fixed point:                                                            *)
(*   lengths    1/1000 pixel (mpx), so 800 px = 800000                     *)
(*   time       millisecond, the unit of timer.ticks(); elapsed = dt/1000  *)
(*   speeds     pixel per second, so speed * dt(ms) is a length in mpx     *)
(*   random     ::rand::random::<f64>() in [0,1) is a percentage 0..99     *)
(* Floating-point rounding is not modelled.                                *)
(***************************************************************************)
EXTENDS Integers, Sequences, FiniteSets, TLC

VARIABLES
    pc,            \* spawn: "loop" while the main loop runs, "exited" after break, "panicked"
    ticks,         \* the value timer.ticks() returns when it is read next
    before,        \* spawn: before
    last_second,   \* spawn: last_second
    fps,           \* spawn: fps, the frame counter
    events,        \* context.events: Events (now: ImmediateEvents, the held flags)
    size,          \* what renderer.output_size() returns, in pixels
    current_view,  \* spawn: current_view, the kind of the boxed view
    game,          \* the GameView, when it is the current view
    ship,          \* the ShipView, when it is the current view
    menu,          \* the MainMenuView, when it is the current view
    trace          \* history of the last loop iteration (not program state)

vars == <<pc, ticks, before, last_second, fps, events, size, current_view,
          game, ship, menu, trace>>

(***************************************************************************)
(* Bounds of the model.                                                    *)
(***************************************************************************)
MaxFrames == 2
MaxLoopFrames == 3

(***************************************************************************)
(* Program constants.                                                      *)
(***************************************************************************)
PLAYER_SPEED == 180
PLAYER_W == 43000
PLAYER_H == 39000
ASTEROID_SIDE == 96000
EXPLOSIONS_TOTAL == 17
EXPLOSION_SIDE == 96000
EXPLOSION_FPS == 16
BULLET_SPEED == 240
BULLET_W == 8000
BULLET_H == 4000
ASTEROIDS_TOTAL == 143
WINDOW_W == 800
WINDOW_H == 600

\* alive_since >= EXPLOSION_DURATION, where EXPLOSION_DURATION is
\* 1.0 / EXPLOSION_FPS * EXPLOSIONS_TOTAL seconds and age is in ms
\* (mutant) the duration is one frame of the animation short
EXPLOSION_DURATION_reached_Mutant(age) ==
    age * EXPLOSION_FPS >= 1000 * (EXPLOSIONS_TOTAL - 1)

EXPLOSION_DURATION_reached(age) == age * EXPLOSION_FPS >= 1000 * EXPLOSIONS_TOTAL

\* let interval = 1_000 / 60 (integer division)
interval == 1000 \div 60

(***************************************************************************)
(* Option<T>                                                               *)
(***************************************************************************)
None == [some |-> FALSE]
Some(v) == [some |-> TRUE, value |-> v]

(***************************************************************************)
(* phi::data::Rectangle                                                    *)
(***************************************************************************)
Rectangle(x, y, w, h) == [x |-> x, y |-> y, w |-> w, h |-> h]

\* (mutant) the right edge is clamped without taking the width off
move_inside_x_Mutant(self, parent) ==
    IF self.x < parent.x THEN parent.x
    ELSE IF self.x + self.w >= parent.x + parent.w THEN parent.x + parent.w
    ELSE self.x

move_inside_x(self, parent) ==
    IF self.x < parent.x THEN parent.x
    ELSE IF self.x + self.w >= parent.x + parent.w THEN parent.x + parent.w - self.w
    ELSE self.x

\* (mutant) the two clamps of the y axis are swapped
move_inside_y_Mutant(self, parent) ==
    IF self.y < parent.y THEN parent.y + parent.h - self.h
    ELSE IF self.y + self.h >= parent.y + parent.h THEN parent.y
    ELSE self.y

move_inside_y(self, parent) ==
    IF self.y < parent.y THEN parent.y
    ELSE IF self.y + self.h >= parent.y + parent.h THEN parent.y + parent.h - self.h
    ELSE self.y

\* (mutant) the size test needs both dimensions to be too large
move_inside_Mutant(self, parent) ==
    IF self.w > parent.w /\ self.h > parent.h
    THEN None
    ELSE Some(Rectangle(move_inside_x(self, parent), move_inside_y(self, parent),
                        self.w, self.h))

move_inside(self, parent) ==
    IF self.w > parent.w \/ self.h > parent.h
    THEN None
    ELSE Some(Rectangle(move_inside_x(self, parent), move_inside_y(self, parent),
                        self.w, self.h))

contains(self, rect) ==
    LET xmin == rect.x
        xmax == xmin + rect.w
        ymin == rect.y
        ymax == ymin + rect.h
    IN  /\ xmin >= self.x /\ xmin <= self.x + self.w
        /\ xmax >= self.x /\ xmax <= self.x + self.w
        /\ ymin >= self.y /\ ymin <= self.y + self.h
        /\ ymax >= self.y /\ ymax <= self.y + self.h

\* (mutant) the last comparison lets touching edges through
overlaps_Mutant(self, other) ==
    /\ self.x < other.x + other.w
    /\ self.x + self.w > other.x
    /\ self.y < other.y + other.h
    /\ self.y + self.h >= other.y

overlaps(self, other) ==
    /\ self.x < other.x + other.w
    /\ self.x + self.w > other.x
    /\ self.y < other.y + other.h
    /\ self.y + self.h > other.y

with_size(w, h) == Rectangle(0, 0, w, h)

\* center is (x, y) as a pair
center_at(self, c) == Rectangle(c[1] - self.w \div 2, c[2] - self.h \div 2, self.w, self.h)

center(self) == <<self.x + self.w \div 2, self.y + self.h \div 2>>

(***************************************************************************)
(* phi::gfx::AnimatedSprite.  frame_delay is in microseconds per frame,    *)
(* current_time in microseconds; frames is the number of sprites.          *)
(***************************************************************************)
AnimatedSprite_new(frames, frame_delay) ==
    [frames |-> frames, frame_delay |-> frame_delay, current_time |-> 0]

\* fps is in frames per 1000 s (so that 10 + p/5 frames per second is exact)
set_fps(sprite, mfps) == [sprite EXCEPT !.frame_delay = 1000000000 \div mfps]

with_fps(frames, mfps) == AnimatedSprite_new(frames, 1000000000 \div mfps)

add_time(sprite, dt) ==
    LET t == sprite.current_time + dt * 1000
    IN  [sprite EXCEPT !.current_time =
            IF t < 0 THEN (sprite.frames - 1) * sprite.frame_delay ELSE t]

set_frame_delay(sprite, frame_delay) == [sprite EXCEPT !.frame_delay = frame_delay]

\* if fps == 0.0 { panic!(..) } of with_fps and set_fps
fps_panics(mfps) == mfps = 0

\* |current_time / frame_delay| truncated, for frame_delay # 0
quotient_magnitude(sprite) ==
    (IF sprite.current_time < 0 THEN -sprite.current_time ELSE sprite.current_time)
        \div (IF sprite.frame_delay < 0 THEN -sprite.frame_delay ELSE sprite.frame_delay)

\* current_time / frame_delay is negative (frame_delay # 0)
quotient_negative(sprite) ==
    \/ sprite.current_time > 0 /\ sprite.frame_delay < 0
    \/ sprite.current_time < 0 /\ sprite.frame_delay > 0

\* AnimatedSprite::render: the values current_frame =
\* (current_time / frame_delay) as usize % frames() can take.  The cast
\* truncates toward zero.  A quotient that is NaN, infinite (frame_delay = 0)
\* or <= -1 is out of usize's range: the cast saturates in a current build
\* and is undefined in the builds of the code's time, so any usize may come
\* out of it, and any index out of the remainder.
AnimatedSprite_render(sprite) ==
    IF sprite.frame_delay = 0 THEN 0 .. sprite.frames - 1
    ELSE IF ~quotient_negative(sprite) THEN {quotient_magnitude(sprite) % sprite.frames}
    ELSE IF quotient_magnitude(sprite) = 0 THEN {0}
    ELSE 0 .. sprite.frames - 1

(***************************************************************************)
(* views::bullets.  A bullet is [kind, pos_x, origin_y, a, b, total_time]: *)
(*   RectBullet       rect.x = pos_x, rect.y = origin_y                    *)
(*   SineBullet       a = amplitude (px), b = angular_vel (rad/s)          *)
(*   DivergentBullet  a (px), b (ms; 1.2 s = 1200)                         *)
(***************************************************************************)
Bullet(kind, x, y, a, b) ==
    [kind |-> kind, pos_x |-> x, origin_y |-> y, a |-> a, b |-> b, total_time |-> 0]

\* 1000 * sin(angle), angle in milliradians >= 0: f64::sin, by Bhaskara's
\* approximation 16 x (pi - x) / (5 pi^2 - 4 x (pi - x)) on [0, pi]
sin_milli(angle) ==
    LET r == angle % 6283
        x == IF r > 3141 THEN r - 3141 ELSE r
        p == x * (3141 - x)
        v == (16 * p * 10) \div ((5 * 3141 * 3141 - 4 * p) \div 100)
    IN  IF r > 3141 THEN -v ELSE v

SineBullet_rect(self) ==
    LET dy == self.a * sin_milli(self.b * self.total_time)
    IN  Rectangle(self.pos_x, self.origin_y + dy, BULLET_W, BULLET_H)

\* a * ((t/b)^3 - (t/b)^2) = a * (t/b)^2 * (t - b) / b
DivergentBullet_rect(self) ==
    LET u2 == (self.total_time * self.total_time) \div ((self.b * self.b) \div 1000)
        dy == self.a * ((u2 * (self.total_time - self.b)) \div self.b)
    IN  Rectangle(self.pos_x, self.origin_y + dy, BULLET_W, BULLET_H)

Bullet_rect(self) ==
    CASE self.kind = "RectBullet" -> Rectangle(self.pos_x, self.origin_y, BULLET_W, BULLET_H)
      [] self.kind = "SineBullet" -> SineBullet_rect(self)
      [] self.kind = "DivergentBullet" -> DivergentBullet_rect(self)

\* sz is phi.output_size() in pixels, dt in ms
\* (mutant) the bullet stops at the right edge instead of passing it
RectBullet_update_Mutant(self, sz, dt) ==
    LET x == self.pos_x + BULLET_SPEED * dt
    IN  Some([self EXCEPT !.pos_x = IF x > sz[1] * 1000 THEN sz[1] * 1000 ELSE x])

RectBullet_update(self, sz, dt) ==
    LET b == [self EXCEPT !.pos_x = @ + BULLET_SPEED * dt]
    IN  IF b.pos_x > sz[1] * 1000 THEN None ELSE Some(b)

\* (mutant) the bullet is tested against all four edges, like a divergent one
SineBullet_update_Mutant(self, sz, dt) ==
    LET b == [self EXCEPT !.total_time = @ + dt, !.pos_x = @ + BULLET_SPEED * dt]
        rect == SineBullet_rect(b)
    IN  IF \/ rect.x > sz[1] * 1000 \/ rect.x < 0
           \/ rect.y > sz[2] * 1000 \/ rect.y < 0
        THEN None ELSE Some(b)

SineBullet_update(self, sz, dt) ==
    LET b == [self EXCEPT !.total_time = @ + dt, !.pos_x = @ + BULLET_SPEED * dt]
    IN  IF SineBullet_rect(b).x > sz[1] * 1000 THEN None ELSE Some(b)

DivergentBullet_update(self, sz, dt) ==
    LET b == [self EXCEPT !.total_time = @ + dt, !.pos_x = @ + BULLET_SPEED * dt]
        rect == DivergentBullet_rect(b)
    IN  IF \/ rect.x > sz[1] * 1000 \/ rect.x < 0
           \/ rect.y > sz[2] * 1000 \/ rect.y < 0
        THEN None ELSE Some(b)

Bullet_update(self, sz, dt) ==
    CASE self.kind = "RectBullet" -> RectBullet_update(self, sz, dt)
      [] self.kind = "SineBullet" -> SineBullet_update(self, sz, dt)
      [] self.kind = "DivergentBullet" -> DivergentBullet_update(self, sz, dt)

\* CannonType, as [type, a, b]
CannonRect == [type |-> "RectBullet", a |-> 0, b |-> 0]
CannonSine == [type |-> "SineBullet", a |-> 10, b |-> 15]
CannonDivergent == [type |-> "DivergentBullet", a |-> 100, b |-> 1200]

\* (mutant) both divergent bullets carry +a
spawn_bullets_Mutant(cannon, cannons_x, cannon1_y, cannon2_y) ==
    CASE cannon.type = "RectBullet" ->
            << Bullet("RectBullet", cannons_x, cannon1_y, 0, 0),
               Bullet("RectBullet", cannons_x, cannon2_y, 0, 0) >>
      [] cannon.type = "SineBullet" ->
            << Bullet("SineBullet", cannons_x, cannon1_y, cannon.a, cannon.b),
               Bullet("SineBullet", cannons_x, cannon2_y, cannon.a, cannon.b) >>
      [] cannon.type = "DivergentBullet" ->
            << Bullet("DivergentBullet", cannons_x, cannon1_y, cannon.a, cannon.b),
               Bullet("DivergentBullet", cannons_x, cannon2_y, cannon.a, cannon.b) >>

spawn_bullets(cannon, cannons_x, cannon1_y, cannon2_y) ==
    CASE cannon.type = "RectBullet" ->
            << Bullet("RectBullet", cannons_x, cannon1_y, 0, 0),
               Bullet("RectBullet", cannons_x, cannon2_y, 0, 0) >>
      [] cannon.type = "SineBullet" ->
            << Bullet("SineBullet", cannons_x, cannon1_y, cannon.a, cannon.b),
               Bullet("SineBullet", cannons_x, cannon2_y, cannon.a, cannon.b) >>
      [] cannon.type = "DivergentBullet" ->
            << Bullet("DivergentBullet", cannons_x, cannon1_y, -cannon.a, cannon.b),
               Bullet("DivergentBullet", cannons_x, cannon2_y, cannon.a, cannon.b) >>

(***************************************************************************)
(* phi::events.  Option<bool> is "None", "SomeTrue" or "SomeFalse".        *)
(* GameView reads key_1, key_2 and key_3, so they are among the keys.      *)
(***************************************************************************)
Keys == {"key_escape", "key_space", "key_down", "key_up", "key_right", "key_left",
         "key_1", "key_2", "key_3"}

ImmediateEvents_new == [resize |-> None, key |-> [k \in Keys |-> "None"], quit |-> FALSE]

Events_new == [now |-> ImmediateEvents_new, held |-> [k \in Keys |-> FALSE]]

\* One SDL event of poll_iter: <<"KeyDown", k>>, <<"KeyUp", k>>, <<"Quit">>,
\* <<"Resized">> or <<"Other">>; sz is renderer.output_size()
\* (mutant) KeyDown reports a press whether or not the key is held
Events_handle_Mutant(self, event, sz) ==
    CASE event[1] = "Resized" -> [self EXCEPT !.now.resize = Some(sz)]
      [] event[1] = "KeyDown" /\ event[2] \in Keys ->
            [self EXCEPT !.now.key[event[2]] = "SomeTrue",
                         !.held[event[2]] = TRUE]
      [] event[1] = "KeyUp" /\ event[2] \in Keys ->
            [self EXCEPT !.now.key[event[2]] = "SomeFalse",
                         !.held[event[2]] = FALSE]
      [] event[1] = "Quit" -> [self EXCEPT !.now.quit = TRUE]
      [] OTHER -> self

Events_handle(self, event, sz) ==
    CASE event[1] = "Resized" -> [self EXCEPT !.now.resize = Some(sz)]
      [] event[1] = "KeyDown" /\ event[2] \in Keys ->
            [self EXCEPT !.now.key[event[2]] =
                            IF ~self.held[event[2]] THEN "SomeTrue" ELSE @,
                         !.held[event[2]] = TRUE]
      [] event[1] = "KeyUp" /\ event[2] \in Keys ->
            [self EXCEPT !.now.key[event[2]] = "SomeFalse",
                         !.held[event[2]] = FALSE]
      [] event[1] = "Quit" -> [self EXCEPT !.now.quit = TRUE]
      [] OTHER -> self

RECURSIVE Events_poll(_, _, _)
Events_poll(self, polled, sz) ==
    IF polled = <<>> THEN self
    ELSE Events_poll(Events_handle(self, Head(polled), sz), Tail(polled), sz)

\* Events::pump: polled is the sequence of events poll_iter yields
Events_pump(self, polled, sz) ==
    Events_poll([self EXCEPT !.now = ImmediateEvents_new], polled, sz)

(***************************************************************************)
(* views::game::Player                                                     *)
(***************************************************************************)
Player_new(sz) ==
    [rect |-> Rectangle(64000, (sz[2] * 1000 - PLAYER_H) \div 2, PLAYER_W, PLAYER_H),
     current |-> "MidNorm",
     cannon |-> CannonRect]

Player_cannon(self, ev) ==
    LET c1 == IF ev.now.key["key_1"] = "SomeTrue" THEN CannonRect ELSE self.cannon
        c2 == IF ev.now.key["key_2"] = "SomeTrue" THEN CannonSine ELSE c1
    IN  IF ev.now.key["key_3"] = "SomeTrue" THEN CannonDivergent ELSE c2

diagonal(ev) ==
    /\ (ev.held["key_up"] # ev.held["key_down"])
    /\ (ev.held["key_left"] # ev.held["key_right"])

\* (if diagonal { 1.0 / sqrt(2) } else { 1.0 }) * PLAYER_SPEED * elapsed, in mpx;
\* 1 / sqrt(2) is 10000 / 14142
\* (mutant) the diagonal factor is left out
moved_Mutant(ev, elapsed) == PLAYER_SPEED * elapsed

moved(ev, elapsed) ==
    IF diagonal(ev) THEN (PLAYER_SPEED * elapsed * 10000) \div 14142
    ELSE PLAYER_SPEED * elapsed

\* match (neg, pos): the displacement along one axis
axis_delta(neg, pos, m) ==
    IF neg = pos THEN 0 ELSE IF neg THEN -m ELSE m

\* (mutant) the two arms of the match on (key_left, key_right) are exchanged
Player_dx_Mutant(ev, elapsed) ==
    axis_delta(ev.held["key_right"], ev.held["key_left"], moved(ev, elapsed))

Player_dx(ev, elapsed) ==
    axis_delta(ev.held["key_left"], ev.held["key_right"], moved(ev, elapsed))

Player_dy(ev, elapsed) ==
    axis_delta(ev.held["key_up"], ev.held["key_down"], moved(ev, elapsed))

\* 0.70 of the output width: don't let it go to the far right wall
movable_region(sz) == Rectangle(0, 0, sz[1] * 700, sz[2] * 1000)

\* (mutant) the column is chosen from the position of the arm, not from dx
PlayerFrame_Mutant(dx, dy) ==
    IF dy < 0 THEN (IF dx >= 0 THEN "UpFast" ELSE "UpSlow")
    ELSE IF dy = 0 THEN (IF dx > 0 THEN "MidFast" ELSE IF dx = 0 THEN "MidNorm" ELSE "MidSlow")
    ELSE (IF dx > 0 THEN "DownFast" ELSE IF dx = 0 THEN "DownNorm" ELSE "DownSlow")

PlayerFrame(dx, dy) ==
    IF dx = 0 /\ dy < 0 THEN "UpNorm"
    ELSE IF dx > 0 /\ dy < 0 THEN "UpFast"
    ELSE IF dx < 0 /\ dy < 0 THEN "UpSlow"
    ELSE IF dx = 0 /\ dy = 0 THEN "MidNorm"
    ELSE IF dx > 0 /\ dy = 0 THEN "MidFast"
    ELSE IF dx < 0 /\ dy = 0 THEN "MidSlow"
    ELSE IF dx = 0 /\ dy > 0 THEN "DownNorm"
    ELSE IF dx > 0 /\ dy > 0 THEN "DownFast"
    ELSE IF dx < 0 /\ dy > 0 THEN "DownSlow"
    ELSE "unreachable"

\* Player::update: None when move_inside(...).unwrap() panics
Player_update(self, ev, sz, elapsed) ==
    LET dx == Player_dx(ev, elapsed)
        dy == Player_dy(ev, elapsed)
        r  == [self.rect EXCEPT !.x = @ + dx, !.y = @ + dy]
        m  == move_inside(r, movable_region(sz))
    IN  IF ~m.some THEN None
        ELSE Some([rect |-> m.value,
                   current |-> PlayerFrame(dx, dy),
                   cannon |-> Player_cannon(self, ev)])

Player_spawn_bullets(self) ==
    spawn_bullets(self.cannon, self.rect.x + 30000,
                  self.rect.y + 6000, self.rect.y + PLAYER_H - 10000)

(***************************************************************************)
(* views::game::Asteroid, AsteroidFactory, Explosion, ExplosionFactory     *)
(***************************************************************************)
\* (mutant) an asteroid exactly one side beyond the left edge is kept
Asteroid_update_Mutant(self, dt) ==
    LET a == [self EXCEPT !.rect.x = @ - dt * self.vel,
                          !.sprite = add_time(@, dt)]
    IN  IF a.rect.x < -ASTEROID_SIDE THEN None ELSE Some(a)

Asteroid_update(self, dt) ==
    LET a == [self EXCEPT !.rect.x = @ - dt * self.vel,
                          !.sprite = add_time(@, dt)]
    IN  IF a.rect.x <= -ASTEROID_SIDE THEN None ELSE Some(a)

\* Asteroid::factory: the shared sprite, with_fps(frames, 1.0)
Asteroid_factory == with_fps(ASTEROIDS_TOTAL, 1000)

\* AsteroidFactory::random; p_fps, p_y, p_vel are its three random draws
AsteroidFactory_random(self, sz, p_fps, p_y, p_vel) ==
    [sprite |-> set_fps(self, p_fps * 200 + 10000),
     rect   |-> Rectangle(sz[1] * 1000, (p_y * (sz[2] * 1000 - ASTEROID_SIDE)) \div 100,
                          ASTEROID_SIDE, ASTEROID_SIDE),
     vel    |-> p_vel + 50]

Explosion_update(self, dt) ==
    LET e == [self EXCEPT !.alive_since = @ + dt, !.sprite = add_time(@, dt)]
    IN  IF EXPLOSION_DURATION_reached(e.alive_since) THEN None ELSE Some(e)

\* Explosion::factory: the shared sprite, with_fps(frames, EXPLOSION_FPS)
Explosion_factory == with_fps(EXPLOSIONS_TOTAL, EXPLOSION_FPS * 1000)

ExplosionFactory_at_center(self, c) ==
    [sprite |-> self,
     rect |-> center_at(with_size(EXPLOSION_SIDE, EXPLOSION_SIDE), c),
     alive_since |-> 0]

(***************************************************************************)
(* views::shared::Background, BgSet.  w is sprite.size().0, the width of   *)
(* the loaded image.                                                       *)
(***************************************************************************)
Background_render(self, elapsed) ==
    LET pos == self.pos + self.vel * elapsed
    IN  [self EXCEPT !.pos = IF pos > self.w THEN pos - self.w ELSE pos]

BgSet_new(w) ==
    [back   |-> [pos |-> 0, vel |-> 20, w |-> w],
     middle |-> [pos |-> 0, vel |-> 40, w |-> w],
     front  |-> [pos |-> 0, vel |-> 80, w |-> w]]

BgSet_render(self, elapsed) ==
    [back   |-> Background_render(self.back, elapsed),
     middle |-> Background_render(self.middle, elapsed),
     front  |-> Background_render(self.front, elapsed)]

(***************************************************************************)
(* views::game::GameView                                                   *)
(***************************************************************************)
GameView_with_backgrounds(sz, bg) ==
    [player |-> Player_new(sz), bullets |-> <<>>, asteroids |-> <<>>,
     explosions |-> <<>>, bg |-> bg]

\* old.into_iter().filter_map(|x| x.update(..)).collect(), for each population
RECURSIVE update_bullets(_, _, _)
update_bullets(bullets, sz, dt) ==
    IF bullets = <<>> THEN <<>>
    ELSE LET u == Bullet_update(Head(bullets), sz, dt)
             rest == update_bullets(Tail(bullets), sz, dt)
         IN  IF u.some THEN <<u.value>> \o rest ELSE rest

RECURSIVE update_asteroids(_, _)
update_asteroids(asteroids, dt) ==
    IF asteroids = <<>> THEN <<>>
    ELSE LET u == Asteroid_update(Head(asteroids), dt)
             rest == update_asteroids(Tail(asteroids), dt)
         IN  IF u.some THEN <<u.value>> \o rest ELSE rest

RECURSIVE update_explosions(_, _)
update_explosions(explosions, dt) ==
    IF explosions = <<>> THEN <<>>
    ELSE LET u == Explosion_update(Head(explosions), dt)
             rest == update_explosions(Tail(explosions), dt)
         IN  IF u.some THEN <<u.value>> \o rest ELSE rest

\* (mutant) a bullet already marked dead is skipped
bullets_hit_Mutant(asteroid, bullets, alive) ==
    {i \in DOMAIN bullets : alive[i] /\ overlaps(asteroid.rect, Bullet_rect(bullets[i]))}

\* for bullet in &mut transition_bullets: the bullets the asteroid overlaps
\* (alive is the bullets' MaybeAlive flags; the loop does not read them)
bullets_hit(asteroid, bullets, alive) ==
    {i \in DOMAIN bullets : overlaps(asteroid.rect, Bullet_rect(bullets[i]))}

\* (mutant) the player is hit only when the asteroid's corner is inside it
player_hit_Mutant(asteroid, player_rect) ==
    /\ player_rect.x < asteroid.rect.x /\ asteroid.rect.x < player_rect.x + player_rect.w
    /\ player_rect.y < asteroid.rect.y /\ asteroid.rect.y < player_rect.y + player_rect.h

\* if asteroid.rect().overlaps(self.player.rect)
player_hit(asteroid, player_rect) == overlaps(asteroid.rect, player_rect)

\* (mutant) the explosion is placed at the asteroid's corner
explosions_for_Mutant(asteroid) ==
    << ExplosionFactory_at_center(Explosion_factory, <<asteroid.rect.x, asteroid.rect.y>>) >>

\* the explosions pushed for a destroyed asteroid
explosions_for(asteroid) ==
    << ExplosionFactory_at_center(Explosion_factory, center(asteroid.rect)) >>

\* (mutant) a bullet's hit kills the bullet but leaves the asteroid alive
RECURSIVE collide_Mutant(_, _, _, _)
collide_Mutant(todo, bullets, player_rect, st) ==
    IF todo = <<>> THEN st
    ELSE LET asteroid == Head(todo)
             hits == bullets_hit(asteroid, bullets, st.alive)
             byPlayer == player_hit(asteroid, player_rect)
             asteroid_alive == ~byPlayer
         IN  collide_Mutant(Tail(todo), bullets, player_rect,
                [asteroids    |-> IF asteroid_alive
                                  THEN Append(st.asteroids, asteroid)
                                  ELSE st.asteroids,
                 alive        |-> [i \in DOMAIN st.alive |-> st.alive[i] /\ i \notin hits],
                 explosions   |-> IF asteroid_alive
                                  THEN st.explosions
                                  ELSE st.explosions \o explosions_for(asteroid),
                 player_alive |-> st.player_alive /\ ~byPlayer])

\* The filter_map closure of the collision pass, applied to the asteroids in
\* order.  st = [asteroids, alive, explosions, player_alive]
RECURSIVE collide(_, _, _, _)
collide(todo, bullets, player_rect, st) ==
    IF todo = <<>> THEN st
    ELSE LET asteroid == Head(todo)
             hits == bullets_hit(asteroid, bullets, st.alive)
             byPlayer == player_hit(asteroid, player_rect)
             asteroid_alive == hits = {} /\ ~byPlayer
         IN  collide(Tail(todo), bullets, player_rect,
                [asteroids    |-> IF asteroid_alive
                                  THEN Append(st.asteroids, asteroid)
                                  ELSE st.asteroids,
                 alive        |-> [i \in DOMAIN st.alive |-> st.alive[i] /\ i \notin hits],
                 explosions   |-> IF asteroid_alive
                                  THEN st.explosions
                                  ELSE st.explosions \o explosions_for(asteroid),
                 player_alive |-> st.player_alive /\ ~byPlayer])

\* (mutant) the flag is read the wrong way round
RECURSIVE as_options_Mutant(_, _)
as_options_Mutant(bullets, alive) ==
    IF bullets = <<>> THEN <<>>
    ELSE (IF Head(alive) THEN <<>> ELSE <<Head(bullets)>>)
         \o as_options_Mutant(Tail(bullets), Tail(alive))

\* transition_bullets.into_iter().filter_map(MaybeAlive::as_option).collect()
RECURSIVE as_options(_, _)
as_options(bullets, alive) ==
    IF bullets = <<>> THEN <<>>
    ELSE (IF Head(alive) THEN <<Head(bullets)>> ELSE <<>>)
         \o as_options(Tail(bullets), Tail(alive))

\* ::rand::random::<usize>() & 100 == 0: bits 2, 5 and 6 of r are clear
spawn_check(r) ==
    /\ (r \div 4) % 2 = 0
    /\ (r \div 32) % 2 = 0
    /\ (r \div 64) % 2 = 0

\* The bullets appended on a fire edge
fire_edge(ev, player) ==
    IF ev.now.key["key_space"] = "SomeTrue" THEN Player_spawn_bullets(player) ELSE <<>>

\* The asteroids pushed by the random spawn; rnd = [r, p_fps, p_y, p_vel]
random_spawn(rnd, sz) ==
    IF spawn_check(rnd.r)
    THEN << AsteroidFactory_random(Asteroid_factory, sz, rnd.p_fps, rnd.p_y, rnd.p_vel) >>
    ELSE <<>>

\* The one element of a singleton set
Only(S) == CHOOSE x \in S : TRUE

NoStages ==
    [updated |-> FALSE, upd_player |-> None, upd_bullets |-> <<>>, upd_asteroids |-> <<>>,
     upd_explosions |-> <<>>, col_bullets |-> <<>>, col_asteroids |-> <<>>,
     col_explosions |-> <<>>, player_alive |-> TRUE, fired |-> <<>>, spawned |-> <<>>]

\* (mutant) the player's destruction ends the game
GameView_returns_Mutant(player_alive) == IF player_alive THEN "None" ELSE "Quit"

\* What GameView::render returns when the update ran to its end; player_alive
\* is only reported (println!)
GameView_returns(player_alive) == "None"

\* (mutant) the fire edge is processed before the collision pass
GameView_update_Mutant(self, ev, sz, elapsed, rnd, player) ==
    Only({ Only({
        LET b2 == as_options(b1, c.alive)
            spawned == random_spawn(rnd, sz)
        IN  [action |-> GameView_returns(c.player_alive),
             view |-> [player |-> player,
                       bullets |-> b2,
                       asteroids |-> c.asteroids \o spawned,
                       explosions |-> c.explosions,
                       bg |-> BgSet_render(self.bg, elapsed)],
             stages |-> [updated |-> TRUE, upd_player |-> Some(player), upd_bullets |-> b1,
                         upd_asteroids |-> a1, upd_explosions |-> e1,
                         col_bullets |-> b2, col_asteroids |-> c.asteroids,
                         col_explosions |-> c.explosions,
                         player_alive |-> c.player_alive,
                         fired |-> fire_edge(ev, player), spawned |-> spawned]]
        : c \in { collide(a1, b1, player.rect,
                          [asteroids |-> <<>>, alive |-> [i \in DOMAIN b1 |-> TRUE],
                           explosions |-> e1, player_alive |-> TRUE]) } })
      : b1 \in { update_bullets(self.bullets, sz, elapsed) \o fire_edge(ev, player) },
        a1 \in { update_asteroids(self.asteroids, elapsed) },
        e1 \in { update_explosions(self.explosions, elapsed) } })

\* GameView::render from the player's update on (the player is updated): the
\* three populations are updated, then the collision pass, the fire edge and
\* the random spawn
GameView_update(self, ev, sz, elapsed, rnd, player) ==
    Only({ Only({
        LET b2 == as_options(b1, c.alive)
            fired == fire_edge(ev, player)
            spawned == random_spawn(rnd, sz)
        IN  [action |-> GameView_returns(c.player_alive),
             view |-> [player |-> player,
                       bullets |-> b2 \o fired,
                       asteroids |-> c.asteroids \o spawned,
                       explosions |-> c.explosions,
                       bg |-> BgSet_render(self.bg, elapsed)],
             stages |-> [updated |-> TRUE, upd_player |-> Some(player), upd_bullets |-> b1,
                         upd_asteroids |-> a1, upd_explosions |-> e1,
                         col_bullets |-> b2, col_asteroids |-> c.asteroids,
                         col_explosions |-> c.explosions,
                         player_alive |-> c.player_alive,
                         fired |-> fired, spawned |-> spawned]]
        : c \in { collide(a1, b1, player.rect,
                          [asteroids |-> <<>>, alive |-> [i \in DOMAIN b1 |-> TRUE],
                           explosions |-> e1, player_alive |-> TRUE]) } })
      : b1 \in { update_bullets(self.bullets, sz, elapsed) },
        a1 \in { update_asteroids(self.asteroids, elapsed) },
        e1 \in { update_explosions(self.explosions, elapsed) } })

\* GameView::render(&mut self, phi, elapsed): the action returned, the view
\* afterwards, the new view of a ChangeView, and the populations after each
\* stage of the update
GameView_render(self, ev, sz, elapsed, rnd) ==
    IF ev.now.quit
    THEN [action |-> "Quit", view |-> self, stages |-> NoStages]
    ELSE IF ev.now.key["key_escape"] = "SomeTrue"
    THEN [action |-> "ChangeView", to |-> "menu", bg |-> self.bg,
          view |-> self, stages |-> NoStages]
    ELSE
    LET p == Player_update(self.player, ev, sz, elapsed)
    IN  IF ~p.some
        THEN [action |-> "Panic", view |-> self, stages |-> NoStages]
        ELSE GameView_update(self, ev, sz, elapsed, rnd, p.value)

(***************************************************************************)
(* views::ShipView (views/mod.rs)                                          *)
(***************************************************************************)
ShipView_new == [player |-> [rect |-> Rectangle(64000, 64000, 32000, 32000)]]

ShipView_render(self, ev, sz, elapsed) ==
    IF ev.now.quit \/ ev.now.key["key_escape"] = "SomeTrue"
    THEN [action |-> "Quit", view |-> self]
    ELSE LET r == [self.player.rect EXCEPT !.x = @ + Player_dx(ev, elapsed),
                                           !.y = @ + Player_dy(ev, elapsed)]
             m == move_inside(r, movable_region(sz))
         IN  IF ~m.some
             THEN [action |-> "Panic", view |-> self]
             ELSE [action |-> "None", view |-> [player |-> [rect |-> m.value]]]

(***************************************************************************)
(* views::main_menu::MainMenuView.  Its source is not in the repository    *)
(* snapshot; it is modelled from the specification: it holds the           *)
(* background set it was handed, returns Quit on the quit signal or an     *)
(* escape press, and on a space press executes the selected entry, which   *)
(* either starts a GameView (handing it the background set) or quits.      *)
(***************************************************************************)
MainMenuView_with_backgrounds(bg) == [bg |-> bg]

MainMenuView_render(self, ev, selected) ==
    IF ev.now.quit \/ ev.now.key["key_escape"] = "SomeTrue"
    THEN [action |-> "Quit", view |-> self]
    ELSE IF ev.now.key["key_space"] = "SomeTrue"
    THEN IF selected = "game"
         THEN [action |-> "ChangeView", to |-> "game", bg |-> self.bg, view |-> self]
         ELSE [action |-> "Quit", view |-> self]
    ELSE [action |-> "None", view |-> self]

(***************************************************************************)
(* phi::spawn: the main loop.  A view that is not current does not exist:  *)
(* its variable holds Dropped.                                             *)
(***************************************************************************)
Dropped == [dropped |-> TRUE]

ViewKinds == {"menu", "game", "ship"}

\* current_view.render(&mut context, elapsed), dispatched on the boxed view.
\* in = [rnd, selected]: the random draws and the menu entry selected
View_render(kind, g, sh, m, ev, sz, elapsed, in) ==
    CASE kind = "game" -> GameView_render(g, ev, sz, elapsed, in.rnd)
      [] kind = "ship" -> ShipView_render(sh, ev, sz, elapsed) @@ [stages |-> NoStages]
      [] kind = "menu" -> MainMenuView_render(m, ev, in.selected) @@ [stages |-> NoStages]

\* (mutant) ChangeView does not install the new view
next_view_Mutant(kind, r) == kind

\* match current_view.render(..): the view that is current afterwards
next_view(kind, r) ==
    IF r.action = "ChangeView" THEN r.to ELSE kind

\* match current_view.render(..): whether the loop goes on
next_pc(r) ==
    CASE r.action = "Quit" -> "exited"
      [] r.action = "Panic" -> "panicked"
      [] OTHER -> "loop"

\* match current_view.render(..): ViewAction::None => context.renderer.present()
presents(r) == r.action = "None"

\* The part of an iteration after the timing: pump, render, match
LogicAndRendering(n, elapsed, polled, sz, in) ==
    \E ev \in {Events_pump(events, polled, sz)} :
    \E r \in {View_render(current_view, game, ship, menu, ev, sz, elapsed, in)} :
    LET kind == next_view(current_view, r)
        changed == r.action = "ChangeView"
    IN  /\ events' = ev
        /\ size' = sz
        /\ pc' = next_pc(r)
        /\ current_view' = kind
        /\ game' = IF changed
                   THEN (IF kind = "game" THEN GameView_with_backgrounds(sz, r.bg) ELSE Dropped)
                   ELSE IF current_view = "game" THEN r.view ELSE game
        /\ ship' = IF changed THEN Dropped
                   ELSE IF current_view = "ship" THEN r.view ELSE ship
        /\ menu' = IF changed
                   THEN (IF kind = "menu" THEN MainMenuView_with_backgrounds(r.bg) ELSE Dropped)
                   ELSE IF current_view = "menu" THEN r.view ELSE menu
        /\ trace' = [step |-> "frame", n |-> n, rendered |-> current_view,
                     elapsed |-> elapsed, action |-> r.action,
                     to |-> IF changed THEN r.to ELSE "none",
                     changes |-> trace.changes + (IF changed THEN 1 ELSE 0),
                     player_hits |-> trace.player_hits +
                        (IF r.stages.updated /\ ~r.stages.player_alive THEN 1 ELSE 0),
                     presented |-> presents(r),
                     pre |-> game, stages |-> r.stages]

\* (mutant) an off-by-one in the comparison with the interval
too_short_Mutant(dt) == dt <= interval

\* if dt < interval: the iteration waits and tries again
too_short(dt) == dt < interval

\* fps += 1, and the reset of the counter once a second: <<fps, last_second>>
fps_count(now) ==
    IF now - last_second > 1000 THEN <<0, now>> ELSE <<fps + 1, last_second>>

NoInput == [rnd |-> [r |-> 4, p_fps |-> 0, p_y |-> 0, p_vel |-> 0], selected |-> "game"]

InitTrace ==
    [step |-> "init", n |-> 0, rendered |-> "none", elapsed |-> 0, action |-> "none",
     to |-> "none", changes |-> 0, player_hits |-> 0,
     presented |-> FALSE, pre |-> Dropped, stages |-> NoStages]

(***************************************************************************)
(* Inputs of the main-loop specification                                   *)
(***************************************************************************)
\* What poll_iter yields in one pump
LoopPolled ==
    { <<>>, << <<"Quit">> >>, << <<"KeyDown", "key_escape">> >>,
      << <<"KeyDown", "key_space">>, <<"KeyUp", "key_space">> >>,
      << <<"KeyDown", "key_right">> >> }

\* ms the rest of an iteration takes (pump, render, present)
FrameCosts == {3, 40}

\* ms timer.delay overshoots
DelayJitter == {0, 1}

LoopInputs ==
    { NoInput,
      [rnd |-> [r |-> 0, p_fps |-> 50, p_y |-> 50, p_vel |-> 50], selected |-> "quit"] }

\* The output sizes the window is resized to (it is created resizable)
LoopSizes == { <<WINDOW_W, WINDOW_H>>, <<60, 600>> }

\* The width of the background images (assets), in mpx
BgWidths == { 512000 }

(***************************************************************************)
(* The main loop: one action per kind of iteration                         *)
(***************************************************************************)
\* An iteration with dt < interval: timer.delay(interval - dt); continue
LoopDelay ==
    /\ pc = "loop"
    /\ LET now == ticks
           dt == now - before
       IN  /\ too_short(dt)
           /\ \E j \in DelayJitter : ticks' = ticks + (interval - dt) + j
           /\ trace' = [InitTrace EXCEPT !.step = "delay", !.n = trace.n,
                                         !.changes = trace.changes,
                                         !.player_hits = trace.player_hits,
                                         !.elapsed = dt, !.pre = game]
    /\ UNCHANGED <<pc, before, last_second, fps, events, size, current_view,
                   game, ship, menu>>

\* An iteration with dt >= interval: one frame
LoopFrame ==
    /\ pc = "loop"
    /\ trace.n < MaxLoopFrames
    /\ LET now == ticks
           dt == now - before
       IN  /\ ~too_short(dt)
           /\ before' = now
           /\ fps' = fps_count(now)[1]
           /\ last_second' = fps_count(now)[2]
           /\ \E polled \in LoopPolled, sz \in LoopSizes, in \in LoopInputs :
                 LogicAndRendering(trace.n + 1, dt, polled, sz, in)
           /\ \E c \in FrameCosts : ticks' = ticks + c

\* spawn(title, init) up to the loop: init supplies the first view
Init ==
    /\ pc = "loop"
    /\ before = 0 /\ last_second = 0 /\ fps = 0
    /\ ticks \in {0, 20}
    /\ events = Events_new
    /\ size = <<WINDOW_W, WINDOW_H>>
    /\ \E w \in BgWidths :
        \/ /\ current_view = "menu"
           /\ menu = MainMenuView_with_backgrounds(BgSet_new(w))
           /\ game = Dropped /\ ship = Dropped
        \/ /\ current_view = "game"
           /\ game = GameView_with_backgrounds(size, BgSet_new(w))
           /\ menu = Dropped /\ ship = Dropped
        \/ /\ current_view = "ship"
           /\ ship = ShipView_new
           /\ menu = Dropped /\ game = Dropped
    /\ trace = InitTrace

Next == LoopDelay \/ LoopFrame

Spec == Init /\ [][Next]_vars

(***************************************************************************)
(* GameView in play: the frames of a GameView whose populations are not    *)
(* empty, with elapsed drawn directly (every value >= interval is a dt the *)
(* loop can measure).                                                      *)
(***************************************************************************)
\* An asteroid as AsteroidFactory::random makes it and updates move it
Asteroid_at(x, y, vel) ==
    [sprite |-> set_fps(Asteroid_factory, 15000), rect |-> Rectangle(x, y, ASTEROID_SIDE, ASTEROID_SIDE),
     vel |-> vel]

\* An explosion of the given age
Explosion_aged(cx, cy, age) ==
    [ExplosionFactory_at_center(Explosion_factory, <<cx, cy>>)
        EXCEPT !.alive_since = age, !.sprite = add_time(@, age)]

\* A bullet in flight for t ms
Bullet_aged(kind, x, y, a, b, t) == [Bullet(kind, x, y, a, b) EXCEPT !.total_time = t]

A_player == Asteroid_at(100000, 250000, 60)   \* over the player's start position
A_free   == Asteroid_at(600000, 50000, 100)   \* touches nothing
A_mid1   == Asteroid_at(300000, 240000, 50)   \* A_mid1 and A_mid2 lie over B_mid
A_mid2   == Asteroid_at(310000, 200000, 149)
A_exit   == Asteroid_at(-95000, 400000, 100)  \* about to pass the left edge
A_brink  == Asteroid_at(-94400, 100000, 100)  \* 16 ms from x = -ASTEROID_SIDE
A_near   == Asteroid_at(-94300, 500000, 100)  \* 16 ms from just short of it

B_mid  == Bullet("RectBullet", 320000, 286500, 0, 0)
B_free == Bullet("RectBullet", 700000, 309500, 0, 0)
B_exit == Bullet("RectBullet", 799000, 286500, 0, 0)  \* about to leave the screen
B_sine == Bullet_aged("SineBullet", 330000, 286500, 10, 15, 100)
B_div  == Bullet_aged("DivergentBullet", 500000, 309500, 100, 1200, 1500)

E_old   == Explosion_aged(400000, 100000, 1050)  \* about to expire
E_young == Explosion_aged(200000, 500000, 100)
E_near  == Explosion_aged(600000, 300000, 1046)  \* 16 ms from just short of it

B_low  == Bullet("RectBullet", 100000, 550000, 0, 0)

GameAsteroids ==
    { <<>>, <<A_player>>, <<A_free>>, <<A_mid1>>, <<A_mid1, A_mid2>>,
      <<A_mid2, A_free, A_mid1>>, <<A_player, A_mid1, A_free>>,
      <<A_exit, A_brink, A_near, A_free>> }

GameBullets ==
    { <<>>, <<B_mid>>, <<B_free, B_mid, B_low>>, <<B_mid, B_free, B_exit>>,
      <<B_sine, B_div>>, <<B_mid, B_sine>> }

GameExplosions == { <<>>, <<E_old, E_near, E_young>> }

GamePolled ==
    { <<>>,
      << <<"KeyDown", "key_space">> >>,
      << <<"KeyDown", "key_3">>, <<"KeyDown", "key_space">>, <<"KeyUp", "key_space">> >>,
      << <<"KeyDown", "key_left">>, <<"KeyDown", "key_up">> >>,
      << <<"KeyDown", "key_escape">> >>,
      << <<"Quit">> >> }

GameDts == { 16, 40 }

GameInputs ==
    { NoInput,
      [rnd |-> [r |-> 3, p_fps |-> 99, p_y |-> 50, p_vel |-> 0], selected |-> "game"] }

GameSizes == { <<WINDOW_W, WINDOW_H>> }

InitGame ==
    /\ pc = "loop"
    /\ before = 0 /\ last_second = 0 /\ fps = 0 /\ ticks = 0
    /\ events = Events_new
    /\ size = <<WINDOW_W, WINDOW_H>>
    /\ current_view = "game"
    /\ menu = Dropped /\ ship = Dropped
    /\ \E w \in BgWidths, a \in GameAsteroids, b \in GameBullets, e \in GameExplosions :
          game = [GameView_with_backgrounds(size, BgSet_new(w))
                    EXCEPT !.asteroids = a, !.bullets = b, !.explosions = e]
    /\ trace = InitTrace

\* One frame of the GameView: pump, render, match
GameFrame ==
    /\ pc = "loop"
    /\ current_view = "game"
    /\ trace.n < MaxFrames
    /\ \E elapsed \in GameDts, polled \in GamePolled, sz \in GameSizes, in \in GameInputs :
          LogicAndRendering(trace.n + 1, elapsed, polled, sz, in)
    /\ UNCHANGED <<ticks, before, last_second, fps>>

NextGame == GameFrame

SpecGame == InitGame /\ [][NextGame]_vars

(***************************************************************************)
(* SpecPlayer: frames of GameView and of ShipView in which the ship is       *)
(* steered and the window is resized; no asteroid is spawned.               *)
(***************************************************************************)
PlayerPolled ==
    { <<>>,
      << <<"KeyDown", "key_right">> >>,
      << <<"KeyDown", "key_left">>, <<"KeyDown", "key_up">> >>,
      << <<"KeyDown", "key_right">>, <<"KeyDown", "key_down">> >>,
      << <<"KeyUp", "key_right">>, <<"KeyDown", "key_left">> >>,
      << <<"KeyDown", "key_down">>, <<"KeyDown", "key_up">> >>,
      << <<"KeyDown", "key_up">> >>,
      << <<"KeyUp", "key_up">>, <<"KeyDown", "key_down">> >>,
      << <<"KeyDown", "key_space">> >>,
      << <<"KeyDown", "key_2">>, <<"KeyDown", "key_right">>, <<"KeyDown", "key_space">> >>,
      << <<"KeyDown", "key_1">>, <<"KeyDown", "key_3">>, <<"KeyDown", "key_space">> >>,
      << <<"KeyDown", "key_3">>, <<"KeyDown", "key_space">>, <<"KeyUp", "key_space">> >> }

\* a regular frame and a hiccup of a second, which moves the ship 180 px
PlayerDts == {16, 1000}

\* the window as created, shrunk, shrunk to where the ship just fits, and
\* shrunk below the ship's width
PlayerSizes == { <<WINDOW_W, WINDOW_H>>, <<400, 300>>, <<62, 40>>, <<60, 600>> }

InitPlayer ==
    /\ pc = "loop"
    /\ before = 0 /\ last_second = 0 /\ fps = 0 /\ ticks = 0
    /\ events = Events_new
    /\ size = <<WINDOW_W, WINDOW_H>>
    /\ current_view \in {"game", "ship"}
    /\ menu = Dropped
    /\ \E w \in BgWidths :
          game = IF current_view = "game"
                 THEN GameView_with_backgrounds(size, BgSet_new(w)) ELSE Dropped
    /\ ship = IF current_view = "ship" THEN ShipView_new ELSE Dropped
    /\ trace = InitTrace

\* One frame of the view that holds the ship: pump, render, match
MoveFrame ==
    /\ pc = "loop"
    /\ current_view \in {"game", "ship"}
    /\ trace.n < MaxFrames
    /\ \E elapsed \in PlayerDts, polled \in PlayerPolled, sz \in PlayerSizes :
          LogicAndRendering(trace.n + 1, elapsed, polled, sz, NoInput)
    /\ UNCHANGED <<ticks, before, last_second, fps>>

NextPlayer == MoveFrame

SpecPlayer == InitPlayer /\ [][NextPlayer]_vars

(***************************************************************************)
(* Claims about the main loop, checked under Spec                          *)
(***************************************************************************)
\* The view variables: exactly the current view exists
OneViewCurrent ==
    /\ current_view \in ViewKinds
    /\ (game # Dropped) = (current_view = "game")
    /\ (ship # Dropped) = (current_view = "ship")
    /\ (menu # Dropped) = (current_view = "menu")

\* A step that is a frame: render was called once more
IsFrameStep == trace'.n = trace.n + 1

\* C1: exactly one view is current at all times; the current view changes only
\* in a frame whose render call, made on the view then current, returned
\* ChangeView(v), and then v is current (so later render calls go to v); a
\* render call returning None leaves the current view as it is and presents.
C1_ViewTransition ==
    /\ OneViewCurrent
    /\ [][ /\ OneViewCurrent'
           /\ IsFrameStep => trace'.rendered = current_view
           /\ (current_view' # current_view) =>
                 (IsFrameStep /\ trace'.action = "ChangeView")
           /\ (IsFrameStep /\ trace'.action = "ChangeView") =>
                 (current_view' = trace'.to /\ ~trace'.presented)
           /\ (IsFrameStep /\ trace'.action = "None") =>
                 (current_view' = current_view /\ trace'.presented)
           /\ (IsFrameStep /\ trace'.action \in {"Quit", "Panic"}) =>
                 (current_view' = current_view /\ ~trace'.presented) ]_vars

\* C1 witness: after a view change, a later render call went to the new view,
\* returned None and was presented
C1_Witness ==
    /\ trace.changes >= 1
    /\ trace.step = "frame" /\ trace.to = "none"
    /\ trace.rendered = current_view
    /\ trace.action = "None" /\ trace.presented

\* C2: once render returns Quit the loop has ended and nothing happens any
\* more, and the loop ends in no other way than a Quit return.
C2_QuitOnlyEnd ==
    [][ /\ (IsFrameStep /\ trace'.action = "Quit") => pc' = "exited"
        /\ (pc = "exited") => UNCHANGED vars
        /\ (pc = "loop" /\ pc' # "loop") => (IsFrameStep /\ trace'.action = "Quit") ]_vars

\* C3: an iteration with dt < 16 ms only delays: before, the frame counter, the
\* events, the views are unchanged and render is not called; an iteration with
\* dt >= 16 calls render exactly once, with elapsed = dt, so elapsed >= 16 ms.
C3_FrameTiming ==
    [][ (pc = "loop") =>
          /\ (ticks - before < 16) =>
                /\ UNCHANGED <<before, fps, last_second, events, size, current_view,
                               game, ship, menu, pc>>
                /\ trace'.n = trace.n /\ trace'.rendered = "none"
                /\ ticks' >= before + 16
          /\ (ticks - before >= 16) =>
                /\ IsFrameStep
                /\ trace'.rendered = current_view
                /\ trace'.elapsed = ticks - before
                /\ trace'.elapsed >= 16
                /\ before' = ticks ]_vars

\* C3 witness: after a delay, a frame was rendered with elapsed exactly 16 ms
C3_Witness == trace.step = "frame" /\ trace.elapsed = 16 /\ trace.n >= 2

(***************************************************************************)
(* Claims about the collision pass of GameView::render, checked under      *)
(* SpecGame.  They are stated on the populations the last frame left after *)
(* each of its stages (trace.stages), from the rectangles alone.           *)
(***************************************************************************)
\* The last step was a frame of GameView that ran the game update
Updated == trace.step = "frame" /\ trace.rendered = "game" /\ trace.stages.updated

\* The bullets (indices) that asteroid a overlaps after the update step
HittingBullets(a) ==
    {i \in DOMAIN trace.stages.upd_bullets :
        overlaps(a.rect, Bullet_rect(trace.stages.upd_bullets[i]))}

HitByPlayer(a) == overlaps(a.rect, trace.stages.upd_player.value.rect)

IsHit(a) == HittingBullets(a) # {} \/ HitByPlayer(a)

IsFree(a) == ~IsHit(a)

\* Bullet b overlaps an asteroid that survived the update step
BulletHits(b) ==
    \E j \in DOMAIN trace.stages.upd_asteroids :
        overlaps(trace.stages.upd_asteroids[j].rect, Bullet_rect(b))

BulletMisses(b) == ~BulletHits(b)

\* The explosions the frame added to those that survived the update step
NewExplosions ==
    SubSeq(game.explosions, Len(trace.stages.upd_explosions) + 1, Len(game.explosions))

\* e is an explosion of age 0 centered on asteroid a
ExplosionOf(e, a) ==
    /\ center(e.rect) = center(a.rect)
    /\ e.rect.w = EXPLOSION_SIDE /\ e.rect.h = EXPLOSION_SIDE
    /\ e.alive_since = 0 /\ e.sprite.current_time = 0

\* C4: in the collision pass every asteroid that survived its update and
\* overlaps a surviving bullet or the player is removed in that frame, with
\* exactly one explosion of age 0 at its center appended for each, in order;
\* an asteroid that overlaps nothing stays and spawns no explosion.
C4_AsteroidsDestroyed ==
    Updated =>
      LET st == trace.stages
          hit == SelectSeq(st.upd_asteroids, IsHit)
      IN  /\ st.col_asteroids = SelectSeq(st.upd_asteroids, IsFree)
          /\ game.asteroids = SelectSeq(st.upd_asteroids, IsFree) \o st.spawned
          /\ Len(game.explosions) = Len(st.upd_explosions) + Len(hit)
          /\ SubSeq(game.explosions, 1, Len(st.upd_explosions)) = st.upd_explosions
          /\ \A k \in 1..Len(hit) : ExplosionOf(NewExplosions[k], hit[k])

\* C4 witness: an asteroid hit by two bullets gave one explosion, an asteroid
\* hit by the player another, and a free asteroid stayed
C4_Witness ==
    /\ Updated
    /\ \E j \in DOMAIN trace.stages.upd_asteroids :
          Cardinality(HittingBullets(trace.stages.upd_asteroids[j])) >= 2
    /\ \E j \in DOMAIN trace.stages.upd_asteroids : IsFree(trace.stages.upd_asteroids[j])
    /\ Len(NewExplosions) = Len(trace.stages.upd_asteroids) - 1
    /\ Len(trace.stages.col_asteroids) = 1

\* C5: in the collision pass a bullet is removed iff it overlaps an asteroid
\* that survived the update step; the other bullets are kept in their order.
C5_BulletsRemoved ==
    Updated =>
      LET st == trace.stages
          kept == SelectSeq(st.upd_bullets, BulletMisses)
      IN  /\ st.col_bullets = kept
          /\ SubSeq(game.bullets, 1, Len(game.bullets) - Len(st.fired)) = kept

\* C5 witness: of three bullets the middle one hit an asteroid and was removed
C5_Witness ==
    /\ Updated
    /\ Len(trace.stages.upd_bullets) = 3
    /\ BulletMisses(trace.stages.upd_bullets[1])
    /\ BulletHits(trace.stages.upd_bullets[2])
    /\ BulletMisses(trace.stages.upd_bullets[3])
    /\ trace.stages.col_bullets = <<trace.stages.upd_bullets[1], trace.stages.upd_bullets[3]>>

\* C6: every asteroid a bullet overlaps in a collision pass is destroyed in
\* that frame, each with an explosion of its own, however many asteroids the
\* bullet overlaps and whichever of them is swept first.
C6_BulletDestroysAll ==
    Updated =>
      LET st == trace.stages
      IN  \A i \in DOMAIN st.upd_bullets :
            LET S == {j \in DOMAIN st.upd_asteroids :
                        overlaps(st.upd_asteroids[j].rect, Bullet_rect(st.upd_bullets[i]))}
            IN  /\ \A j \in S :
                      /\ \A k \in DOMAIN game.asteroids : game.asteroids[k] # st.upd_asteroids[j]
                      /\ \E k \in DOMAIN NewExplosions :
                            ExplosionOf(NewExplosions[k], st.upd_asteroids[j])
                /\ Len(NewExplosions) >= Cardinality(S)

\* C6 witness: one bullet overlapped two asteroids and both were destroyed
C6_Witness ==
    /\ Updated
    /\ \E i \in DOMAIN trace.stages.upd_bullets :
          Cardinality({j \in DOMAIN trace.stages.upd_asteroids :
                overlaps(trace.stages.upd_asteroids[j].rect,
                         Bullet_rect(trace.stages.upd_bullets[i]))}) >= 2
    /\ Len(trace.stages.upd_bullets) = 1
    /\ Len(NewExplosions) = 2
    /\ trace.stages.col_asteroids = <<>>

\* Asteroid j of the sequence is the only asteroid that overlaps anything: it
\* overlaps exactly one of the bullets and not the player
OnePair(asteroids, bullets, player_rect, j) ==
    /\ Cardinality({i \in DOMAIN bullets :
            overlaps(asteroids[j].rect, Bullet_rect(bullets[i]))}) = 1
    /\ ~overlaps(asteroids[j].rect, player_rect)
    /\ \A k \in DOMAIN asteroids \ {j} :
          /\ ~overlaps(asteroids[k].rect, player_rect)
          /\ \A i \in DOMAIN bullets : ~overlaps(asteroids[k].rect, Bullet_rect(bullets[i]))

\* C7 (as stated): from a GameView state with one asteroid overlapping exactly
\* one bullet and not the player, one render that takes the update path
\* leaves one asteroid fewer, one bullet fewer and one explosion more.
C7_Counts ==
    Updated =>
      \A j \in DOMAIN trace.pre.asteroids :
        OnePair(trace.pre.asteroids, trace.pre.bullets, trace.pre.player.rect, j) =>
          /\ Len(game.asteroids) = Len(trace.pre.asteroids) - 1
          /\ Len(game.bullets) = Len(trace.pre.bullets) - 1
          /\ Len(game.explosions) = Len(trace.pre.explosions) + 1

\* C7 (amended): when the update step of a frame leaves exactly one asteroid
\* overlapping exactly one bullet and not the player, the collision pass
\* leaves one asteroid and one bullet fewer than survived the update step and
\* one explosion more, centered on that asteroid; the frame then adds the two
\* bullets of a fire edge and the asteroid of a random spawn.
C7_CountsAmended ==
    Updated =>
      LET st == trace.stages
      IN  \A j \in DOMAIN st.upd_asteroids :
            OnePair(st.upd_asteroids, st.upd_bullets, st.upd_player.value.rect, j) =>
              /\ Len(st.col_asteroids) = Len(st.upd_asteroids) - 1
              /\ Len(st.col_bullets) = Len(st.upd_bullets) - 1
              /\ Len(st.col_explosions) = Len(st.upd_explosions) + 1
              /\ ExplosionOf(st.col_explosions[Len(st.col_explosions)], st.upd_asteroids[j])
              /\ Len(game.asteroids) = Len(st.upd_asteroids) - 1 + Len(st.spawned)
              /\ Len(game.bullets) = Len(st.upd_bullets) - 1 + Len(st.fired)
              /\ Len(game.explosions) = Len(st.upd_explosions) + 1
              /\ Len(st.spawned) \in {0, 1}
              /\ Len(st.fired) \in {0, 2}

\* C7 witness: a frame with one overlapping pair after its update step that
\* also fired and spawned, so that the counts moved by 0, +1 and +1
C7_Witness ==
    /\ Updated
    /\ \E j \in DOMAIN trace.stages.upd_asteroids :
          OnePair(trace.stages.upd_asteroids, trace.stages.upd_bullets,
                  trace.stages.upd_player.value.rect, j)
    /\ \E j \in DOMAIN trace.pre.asteroids :
          OnePair(trace.pre.asteroids, trace.pre.bullets, trace.pre.player.rect, j)
    /\ Len(trace.stages.fired) = 2
    /\ Len(trace.stages.spawned) = 1
    /\ Len(game.asteroids) = Len(trace.pre.asteroids)
    /\ Len(game.bullets) = Len(trace.pre.bullets) + 1

\* The two bullets Player::spawn_bullets places at the cannons of player p
AtCannons(b1, b2, p) ==
    /\ b1.kind = p.cannon.type /\ b2.kind = p.cannon.type
    /\ b1.total_time = 0 /\ b2.total_time = 0
    /\ Bullet_rect(b1) = Rectangle(p.rect.x + 30000, p.rect.y + 6000, BULLET_W, BULLET_H)
    /\ Bullet_rect(b2) =
          Rectangle(p.rect.x + 30000, p.rect.y + PLAYER_H - 10000, BULLET_W, BULLET_H)

\* C8: the bullets of a fire edge are appended after the collision pass of
\* that frame: they end the frame at their spawn positions behind the bullets
\* that survived the pass, are not removed and destroy no asteroid in that
\* frame; every bullet a frame starts with is moved by that frame's update.
C8_FiredAfterCollision ==
    Updated =>
      LET st == trace.stages
          n == Len(game.bullets)
      IN  /\ events.now.key["key_space"] = "SomeTrue" =>
                /\ n >= 2
                /\ AtCannons(game.bullets[n - 1], game.bullets[n], game.player)
                /\ SubSeq(game.bullets, 1, n - 2) = SelectSeq(st.upd_bullets, BulletMisses)
                /\ \A j \in DOMAIN st.upd_asteroids :
                      IsFree(st.upd_asteroids[j]) =>
                        \E k \in DOMAIN game.asteroids : game.asteroids[k] = st.upd_asteroids[j]
                /\ Len(NewExplosions) = Len(SelectSeq(st.upd_asteroids, IsHit))
          /\ events.now.key["key_space"] # "SomeTrue" =>
                game.bullets = SelectSeq(st.upd_bullets, BulletMisses)
          /\ \A k \in DOMAIN st.upd_bullets :
                \E i \in DOMAIN trace.pre.bullets :
                    /\ st.upd_bullets[k].kind = trace.pre.bullets[i].kind
                    /\ st.upd_bullets[k].origin_y = trace.pre.bullets[i].origin_y
                    /\ st.upd_bullets[k].pos_x =
                          trace.pre.bullets[i].pos_x + BULLET_SPEED * trace.elapsed

\* C8 witness: a fire edge in a frame where an asteroid lies over the cannons;
\* both new bullets end the frame in the bullet list
C8_Witness ==
    /\ Updated
    /\ events.now.key["key_space"] = "SomeTrue"
    /\ Len(game.bullets) >= 3
    /\ \E j \in DOMAIN trace.stages.upd_asteroids :
          /\ overlaps(trace.stages.upd_asteroids[j].rect,
                      Bullet_rect(game.bullets[Len(game.bullets)]))
          /\ overlaps(trace.stages.upd_asteroids[j].rect,
                      Bullet_rect(game.bullets[Len(game.bullets) - 1]))
    /\ AtCannons(game.bullets[Len(game.bullets) - 1], game.bullets[Len(game.bullets)],
                 game.player)

\* C9: an asteroid that overlaps the player is destroyed and the hit is
\* reported, and nothing else: the player is as Player::update left it, the
\* frame returns None and is presented, the loop goes on with GameView, and
\* the player is still in the game in every later frame.
C9_PlayerSurvives ==
    /\ Updated =>
          LET st == trace.stages
              over == {j \in DOMAIN st.upd_asteroids : HitByPlayer(st.upd_asteroids[j])}
          IN  /\ st.player_alive <=> over = {}
              /\ \A j \in over :
                    \A k \in DOMAIN game.asteroids : game.asteroids[k] # st.upd_asteroids[j]
              /\ game.player =
                    Player_update(trace.pre.player, events, size, trace.elapsed).value
              /\ trace.action = "None" /\ trace.presented
              /\ pc = "loop" /\ current_view = "game"
    /\ (trace.player_hits >= 1 /\ current_view = "game") =>
          /\ game.player.rect.w = PLAYER_W /\ game.player.rect.h = PLAYER_H
          /\ game.player.current \in {"UpNorm", "UpFast", "UpSlow", "MidNorm", "MidFast",
                                      "MidSlow", "DownNorm", "DownFast", "DownSlow"}

\* C9 witness: the player was hit in the first frame and moves, still in the
\* game, in the second
C9_Witness ==
    /\ Updated
    /\ trace.n = 2 /\ trace.player_hits = 1
    /\ trace.stages.player_alive
    /\ trace.action = "None"
    /\ game.player.rect # trace.pre.player.rect

(***************************************************************************)
(* Claims about the ship's movement, checked under SpecPlayer              *)
(***************************************************************************)
\* rect lies in [0, 0.70 * w] x [0, h] of a window of size sz
InMovableRegion(rect, sz) ==
    /\ 0 <= rect.x /\ rect.x + rect.w <= 700 * sz[1]
    /\ 0 <= rect.y /\ rect.y + rect.h <= 1000 * sz[2]

\* C10: after every Player::update, and every ShipView render that moves the
\* ship, the ship's rectangle lies inside [0, 0.70 * w] x [0, h] for the
\* output size of that frame, its width and height are unchanged, and it
\* never reaches into the right 30% of the window.
C10_PlayerInside ==
    (trace.step = "frame" /\ trace.action = "None") =>
      /\ trace.rendered = "game" =>
            /\ InMovableRegion(game.player.rect, size)
            /\ game.player.rect.w = PLAYER_W /\ game.player.rect.h = PLAYER_H
            /\ game.player.rect.w = trace.pre.player.rect.w
            /\ game.player.rect.h = trace.pre.player.rect.h
      /\ trace.rendered = "ship" =>
            /\ InMovableRegion(ship.player.rect, size)
            /\ ship.player.rect.w = 32000 /\ ship.player.rect.h = 32000

\* C10 witness: the window was shrunk so that the ship stood outside the new
\* region, and the update of that frame put it against the region's right edge
C10_Witness ==
    /\ trace.step = "frame" /\ trace.action = "None" /\ trace.rendered = "game"
    /\ size # <<WINDOW_W, WINDOW_H>>
    /\ trace.pre.player.rect.x + PLAYER_W > 700 * size[1]
    /\ game.player.rect.x + PLAYER_W = 700 * size[1]

\* C11: the move_inside(..).unwrap() of Player::update never fails: in every
\* reachable state, also after the window was resized, the player's rectangle
\* is no larger than the movable region of the frame's output size.
C11_UnwrapNeverFails ==
    /\ ~(trace.step = "frame" /\ trace.rendered = "game" /\ trace.action = "Panic")
    /\ pc # "panicked"
    /\ (trace.step = "frame" /\ trace.rendered = "game") =>
          /\ PLAYER_W <= movable_region(size).w
          /\ PLAYER_H <= movable_region(size).h

(***************************************************************************)
(* Specifications that call one library operation directly.  No view is    *)
(* current; trace holds the call just made: its arguments and its result.  *)
(***************************************************************************)
InitUnit ==
    /\ pc = "unit"
    /\ before = 0 /\ last_second = 0 /\ fps = 0 /\ ticks = 0
    /\ events = Events_new
    /\ size = <<WINDOW_W, WINDOW_H>>
    /\ current_view = "none"
    /\ game = Dropped /\ ship = Dropped /\ menu = Dropped

UnitUnchanged ==
    UNCHANGED <<ticks, before, last_second, fps, events, size, current_view, game, ship, menu>>

(***************************************************************************)
(* SpecRect: Rectangle::overlaps and Rectangle::move_inside on rectangles  *)
(* with w, h >= 0, zero-sized ones included.                               *)
(***************************************************************************)
RectXs == {0, 1000, 2000}
RectYs == {0, 1000}
RectWs == {0, 1000, 2000}
RectHs == {0, 1000, 2000}

TestRects == { Rectangle(x, y, w, h) : x \in RectXs, y \in RectYs, w \in RectWs, h \in RectHs }

InitRect == InitUnit /\ trace = [step |-> "init"]

CallOverlaps ==
    /\ pc = "unit" /\ trace.step = "init"
    /\ \E a \in TestRects, b \in TestRects :
          trace' = [step |-> "overlaps", self |-> a, other |-> b,
                    result |-> overlaps(a, b), swapped |-> overlaps(b, a)]
    /\ pc' = pc
    /\ UnitUnchanged

\* result is self.move_inside(parent); again is the same call on the result
CallMoveInside ==
    /\ pc = "unit" /\ trace.step = "init"
    /\ \E a \in TestRects, p \in TestRects :
          \E m \in {move_inside(a, p)} :
             trace' = [step |-> "move_inside", self |-> a, parent |-> p, result |-> m,
                       again |-> IF m.some THEN move_inside(m.value, p) ELSE None]
    /\ pc' = pc
    /\ UnitUnchanged

NextRect == CallOverlaps \/ CallMoveInside

SpecRect == InitRect /\ [][NextRect]_vars

\* C12: Rectangle::overlaps is symmetric on rectangles with w, h >= 0.
C12_OverlapsSymmetric ==
    trace.step = "overlaps" => trace.result = trace.swapped

\* C12 witness: two different rectangles that overlap, asked both ways
C12_Witness ==
    /\ trace.step = "overlaps"
    /\ trace.self # trace.other
    /\ trace.self.x < trace.other.x /\ trace.self.y < trace.other.y
    /\ trace.result /\ trace.swapped

\* Width of the intersection of the intervals [a, a + la] and [b, b + lb]
\* (negative when they are apart)
Shared(a, la, b, lb) ==
    (IF a + la < b + lb THEN a + la ELSE b + lb) - (IF a > b THEN a ELSE b)

\* C13: for rectangles with w, h >= 0, zero-sized ones included, overlaps is
\* true iff the projections on both axes intersect with nonzero width; in
\* particular rectangles that only touch along an edge do not overlap.
C13_OverlapsIffProjections ==
    trace.step = "overlaps" =>
      LET a == trace.self
          b == trace.other
      IN  /\ trace.result <=> (Shared(a.x, a.w, b.x, b.w) > 0 /\ Shared(a.y, a.h, b.y, b.h) > 0)
          /\ (a.x + a.w = b.x \/ a.y + a.h = b.y) => ~trace.result

\* C14: move_inside returns None iff self.w > parent.w or self.h > parent.h;
\* otherwise a rectangle of the same size that lies within parent, with x
\* (y) unchanged when the original lay strictly inside on that axis.
C14_MoveInside ==
    trace.step = "move_inside" =>
      LET r == trace.self
          p == trace.parent
          m == trace.result
      IN  /\ ~m.some <=> (r.w > p.w \/ r.h > p.h)
          /\ m.some =>
                /\ m.value.w = r.w /\ m.value.h = r.h
                /\ p.x <= m.value.x /\ m.value.x + m.value.w <= p.x + p.w
                /\ p.y <= m.value.y /\ m.value.y + m.value.h <= p.y + p.h
                /\ (p.x < r.x /\ r.x + r.w < p.x + p.w) => m.value.x = r.x
                /\ (p.y < r.y /\ r.y + r.h < p.y + p.h) => m.value.y = r.y

\* C14 witness: a rectangle pushed back on x and left alone on y, and (in
\* another call) one too high for its parent
C14_Witness ==
    /\ trace.step = "move_inside"
    /\ trace.result.some
    /\ trace.result.value.x # trace.self.x
    /\ trace.parent.y < trace.self.y
    /\ trace.self.y + trace.self.h < trace.parent.y + trace.parent.h
    /\ trace.result.value.y = trace.self.y

\* C15: move_inside is idempotent: when self.move_inside(parent) is Some(r1),
\* r1.move_inside(parent) is Some(r1).
C15_MoveInsideIdempotent ==
    (trace.step = "move_inside" /\ trace.result.some) => trace.again = trace.result

\* C15 witness: a rectangle that was moved on both axes, and stays there
C15_Witness ==
    /\ trace.step = "move_inside"
    /\ trace.result.some
    /\ trace.result.value.x # trace.self.x
    /\ trace.result.value.y # trace.self.y
    /\ trace.again = trace.result

(***************************************************************************)
(* SpecSprite: one AnimatedSprite driven through its public constructors   *)
(* and mutators.  trace.sprite is the sprite, trace.frame the index the    *)
(* last render drew (-1 before), trace.wrapped whether the last add_time   *)
(* found the time cursor negative.                                         *)
(***************************************************************************)
MaxCalls == 4

\* sprites of one and of four frames
FrameCounts == {1, 4}

\* frame delays handed to new and set_frame_delay, in microseconds
FrameDelays == {-100000, 0, 50000, 100000}

\* fps handed to with_fps and set_fps, in frames per 1000 s
FpsValues == {0, 10000, 20000}

\* dt handed to add_time, in ms
TimeSteps == {-50, 50, 350}

SpriteCall(step, sprite, frame, wrapped) ==
    trace' = [step |-> step, n |-> trace.n + 1, sprite |-> sprite,
              frame |-> frame, wrapped |-> wrapped]

InitSprite ==
    /\ InitUnit
    /\ trace = [step |-> "init", n |-> 0, sprite |-> None, frame |-> -1, wrapped |-> FALSE]

SpriteNew ==
    /\ pc = "unit" /\ trace.step = "init"
    /\ \E frames \in FrameCounts, frame_delay \in FrameDelays :
          SpriteCall("new", Some(AnimatedSprite_new(frames, frame_delay)), -1, FALSE)
    /\ pc' = pc
    /\ UnitUnchanged

SpriteWithFps ==
    /\ pc = "unit" /\ trace.step = "init"
    /\ \E frames \in FrameCounts, mfps \in FpsValues :
          IF fps_panics(mfps)
          THEN pc' = "panicked" /\ SpriteCall("with_fps", None, -1, FALSE)
          ELSE pc' = pc /\ SpriteCall("with_fps", Some(with_fps(frames, mfps)), -1, FALSE)
    /\ UnitUnchanged

SpriteSetFps ==
    /\ pc = "unit" /\ trace.sprite.some /\ trace.n < MaxCalls
    /\ \E mfps \in FpsValues :
          IF fps_panics(mfps)
          THEN pc' = "panicked" /\ SpriteCall("set_fps", trace.sprite, trace.frame, FALSE)
          ELSE pc' = pc /\ SpriteCall("set_fps", Some(set_fps(trace.sprite.value, mfps)),
                                      trace.frame, FALSE)
    /\ UnitUnchanged

SpriteSetFrameDelay ==
    /\ pc = "unit" /\ trace.sprite.some /\ trace.n < MaxCalls
    /\ \E frame_delay \in FrameDelays :
          SpriteCall("set_frame_delay", Some(set_frame_delay(trace.sprite.value, frame_delay)),
                     trace.frame, FALSE)
    /\ pc' = pc
    /\ UnitUnchanged

SpriteAddTime ==
    /\ pc = "unit" /\ trace.sprite.some /\ trace.n < MaxCalls
    /\ \E dt \in TimeSteps :
          SpriteCall("add_time", Some(add_time(trace.sprite.value, dt)), trace.frame,
                     trace.sprite.value.current_time + dt * 1000 < 0)
    /\ pc' = pc
    /\ UnitUnchanged

\* #[derive(Clone)]: the clone takes the place of the sprite
SpriteClone ==
    /\ pc = "unit" /\ trace.sprite.some /\ trace.n < MaxCalls
    /\ SpriteCall("clone", trace.sprite, trace.frame, trace.wrapped)
    /\ pc' = pc
    /\ UnitUnchanged

SpriteRender ==
    /\ pc = "unit" /\ trace.sprite.some /\ trace.n < MaxCalls
    /\ \E current_frame \in AnimatedSprite_render(trace.sprite.value) :
          SpriteCall("render", trace.sprite, current_frame, trace.wrapped)
    /\ pc' = pc
    /\ UnitUnchanged

NextSprite ==
    \/ SpriteNew \/ SpriteWithFps \/ SpriteSetFps \/ SpriteSetFrameDelay
    \/ SpriteAddTime \/ SpriteClone \/ SpriteRender

SpecSprite == InitSprite /\ [][NextSprite]_vars

\* floor(t / d) for d # 0
FloorDiv(t, d) == IF d > 0 THEN t \div d ELSE (-t) \div (-d)

\* C16: the frame a sprite renders has index floor(current_time /
\* frame_delay) mod frame_count, which is within 0 .. frame_count - 1 and is
\* periodic in current_time with period frame_count * frame_delay (stated
\* for the sprites whose frame_delay is not 0, for which the quotient exists).
C16_FrameIndex ==
    (trace.step = "render" /\ trace.sprite.value.frame_delay # 0) =>
      LET sp == trace.sprite.value
          later == [sp EXCEPT !.current_time = @ + sp.frames * sp.frame_delay]
      IN  /\ trace.frame = FloorDiv(sp.current_time, sp.frame_delay) % sp.frames
          /\ trace.frame \in 0 .. sp.frames - 1
          /\ AnimatedSprite_render(later) = AnimatedSprite_render(sp)

\* C17: when add_time finds the time cursor negative it wraps it so that the
\* frame rendered next is the last one, whatever frame_delay the sprite has.
C17_WrapsToLastFrame ==
    (trace.step = "render" /\ trace.wrapped) =>
        trace.frame = trace.sprite.value.frames - 1

\* C18: every AnimatedSprite has frame_delay # 0, whatever sequence of new,
\* with_fps, set_fps, set_frame_delay, add_time and clone produced it.
C18_FrameDelayNonZero ==
    trace.sprite.some => trace.sprite.value.frame_delay # 0

(***************************************************************************)
(* SpecBullet: one bullet, as spawn_bullets makes it, updated frame after  *)
(* frame until it is dropped.  trace.pre is the bullet before the last     *)
(* update, trace.bullet what update returned, trace.x0 the x it was        *)
(* spawned at and trace.t the sum of the dt so far.                        *)
(***************************************************************************)
MaxUpdates == 3

\* top-left corners of the player at the time of the shot
\* (from the last, one frame of 16 ms takes the bullet to x = 400 exactly)
ShotPositions == { <<64000, 280500>>, <<517000, 0>>, <<0, 561000>>, <<366160, 100000>> }

ShotCannons == {CannonRect, CannonSine, CannonDivergent}

\* dt of a frame, in ms
BulletDts == {16, 300, 1000}

BulletSizes == { <<WINDOW_W, WINDOW_H>>, <<400, 300>> }

InitBullet ==
    /\ InitUnit
    /\ \E p \in ShotPositions, c \in ShotCannons, i \in {1, 2} :
          LET b == spawn_bullets(c, p[1] + 30000, p[2] + 6000, p[2] + PLAYER_H - 10000)[i]
          IN  trace = [step |-> "init", n |-> 0, bullet |-> Some(b), pre |-> b,
                       x0 |-> b.pos_x, t |-> 0, sz |-> size, dt |-> 0]

BulletUpdate ==
    /\ pc = "unit" /\ trace.bullet.some /\ trace.n < MaxUpdates
    /\ \E dt \in BulletDts, sz \in BulletSizes :
          trace' = [step |-> "update", n |-> trace.n + 1,
                    bullet |-> Bullet_update(trace.bullet.value, sz, dt),
                    pre |-> trace.bullet.value,
                    x0 |-> trace.x0, t |-> trace.t + dt, sz |-> sz, dt |-> dt]
    /\ pc' = pc
    /\ UnitUnchanged

NextBullet == BulletUpdate

SpecBullet == InitBullet /\ [][NextBullet]_vars

\* C19: update reports a bullet dead exactly when its rectangle after the
\* move has left the playfield: a Rect or Sine bullet lives iff x <= width,
\* whatever its y; a Divergent bullet lives iff 0 <= x <= width and
\* 0 <= y <= height; a living Rect bullet spawned at x0 is at x0 + 240 * t.
C19_BulletAlive ==
    trace.step = "update" =>
      LET pre == trace.pre
          x == pre.pos_x + BULLET_SPEED * trace.dt
          w == 1000 * trace.sz[1]
          h == 1000 * trace.sz[2]
          y == Bullet_rect([pre EXCEPT !.pos_x = x, !.total_time = @ + trace.dt]).y
      IN  /\ pre.kind \in {"RectBullet", "SineBullet"} => (trace.bullet.some <=> x <= w)
          /\ pre.kind = "DivergentBullet" =>
                (trace.bullet.some <=> (0 <= x /\ x <= w /\ 0 <= y /\ y <= h))
          /\ trace.bullet.some =>
                /\ Bullet_rect(trace.bullet.value).x = x
                /\ x = trace.x0 + BULLET_SPEED * trace.t
                /\ trace.bullet.value.kind = pre.kind
                /\ trace.bullet.value.origin_y = pre.origin_y
          /\ (trace.bullet.some /\ pre.kind = "RectBullet") =>
                Bullet_rect(trace.bullet.value) =
                    Rectangle(trace.x0 + BULLET_SPEED * trace.t, pre.origin_y, BULLET_W, BULLET_H)

\* C19 witness: a Sine bullet that swung above the top edge and lives on
C19_Witness ==
    /\ trace.step = "update"
    /\ trace.pre.kind = "SineBullet"
    /\ trace.bullet.some
    /\ Bullet_rect(trace.bullet.value).y < 0
    /\ trace.n >= 2

\* The cannon mode after the mode-select handling of the frame: key_3 wins
\* over key_2 and key_2 over key_1; no press keeps the mode
ModeInEffect ==
    IF events.now.key["key_3"] = "SomeTrue" THEN "DivergentBullet"
    ELSE IF events.now.key["key_2"] = "SomeTrue" THEN "SineBullet"
    ELSE IF events.now.key["key_1"] = "SomeTrue" THEN "RectBullet"
    ELSE trace.pre.player.cannon.type

\* The bullet of mode kind at (x, y) with first coefficient a
ExpectedBullet(kind, x, y, sign) ==
    CASE kind = "RectBullet" ->
            [kind |-> kind, pos_x |-> x, origin_y |-> y, a |-> 0, b |-> 0, total_time |-> 0]
      [] kind = "SineBullet" ->
            [kind |-> kind, pos_x |-> x, origin_y |-> y, a |-> 10, b |-> 15, total_time |-> 0]
      [] kind = "DivergentBullet" ->
            [kind |-> kind, pos_x |-> x, origin_y |-> y, a |-> sign * 100, b |-> 1200,
             total_time |-> 0]

\* C20: in a frame that runs the game update a fire edge adds exactly two
\* bullets and no fire edge adds none; the two are of the cannon mode in
\* effect after the frame's mode selection, start at (x + 30, y + 6) and
\* (x + 30, y + PLAYER_H - 10) of the player's moved and clamped rectangle,
\* and in Divergent mode carry the coefficients -a and +a.
C20_FireAddsTwo ==
    Updated =>
      LET st == trace.stages
          p == game.player.rect
          added == SubSeq(game.bullets, Len(st.col_bullets) + 1, Len(game.bullets))
      IN  /\ SubSeq(game.bullets, 1, Len(st.col_bullets)) = st.col_bullets
          /\ Len(game.bullets) >= Len(st.col_bullets)
          /\ InMovableRegion(p, size)
          /\ events.now.key["key_space"] # "SomeTrue" => added = <<>>
          /\ events.now.key["key_space"] = "SomeTrue" =>
                /\ Len(added) = 2
                /\ added[1] = ExpectedBullet(ModeInEffect, p.x + 30000, p.y + 6000, -1)
                /\ added[2] = ExpectedBullet(ModeInEffect, p.x + 30000,
                                             p.y + PLAYER_H - 10000, 1)

\* C20 witness: 1 and 3 pressed with the shot in Rect mode while the ship
\* moves: two divergent bullets with -a and +a
C20_Witness ==
    /\ Updated
    /\ events.now.key["key_space"] = "SomeTrue"
    /\ events.now.key["key_1"] = "SomeTrue" /\ events.now.key["key_3"] = "SomeTrue"
    /\ trace.pre.player.cannon.type = "RectBullet"
    /\ game.player.rect # trace.pre.player.rect
    /\ game.bullets[Len(game.bullets)].a = 100
    /\ game.bullets[Len(game.bullets) - 1].a = -100
    /\ game.bullets[Len(game.bullets)].kind = "DivergentBullet"

(***************************************************************************)
(* SpecRun: the ship flown to the right for RunFrames frames of 1/60 s.    *)
(* 1/60 s is no whole number of ms, so this specification counts in        *)
(* thirds: time in 1/3 ms (1/60 s is 50 of them), lengths in 1/3 mpx and   *)
(* the output size in 1/3 px.  Player::update and ShipView::render are the *)
(* same arithmetic in any unit: PLAYER_SPEED is a ratio of the two, the    *)
(* movable region is a fraction of the output size, and the ship's         *)
(* rectangle is state.  No bullet, asteroid or explosion exists.           *)
(***************************************************************************)
RunFrames == 30

\* A length or a time in thirds of the model's unit
Fine(v) == 3 * v

FineRect(r) == Rectangle(Fine(r.x), Fine(r.y), Fine(r.w), Fine(r.h))

\* The window as created
RunSize == << Fine(WINDOW_W), Fine(WINDOW_H) >>

\* What poll_iter yields while only the right key is held: the press in the
\* first frame, then nothing, the key's auto-repeat, or a window event
RunPolled(n) ==
    IF n = 1
    THEN { << <<"KeyDown", "key_right">> >>,
           << <<"Resized">>, <<"KeyDown", "key_right">> >> }
    ELSE { <<>>, << <<"KeyDown", "key_right">> >>, << <<"Resized">> >> }

InitRun ==
    /\ pc = "loop"
    /\ before = 0 /\ last_second = 0 /\ fps = 0 /\ ticks = 0
    /\ events = Events_new
    /\ size = RunSize
    /\ current_view \in {"game", "ship"}
    /\ menu = Dropped
    /\ \E w \in BgWidths :
          game = IF current_view = "game"
                 THEN [GameView_with_backgrounds(<<WINDOW_W, WINDOW_H>>, BgSet_new(Fine(w)))
                         EXCEPT !.player.rect = FineRect(@)]
                 ELSE Dropped
    /\ ship = IF current_view = "ship"
              THEN [player |-> [rect |-> FineRect(ShipView_new.player.rect)]]
              ELSE Dropped
    /\ trace = InitTrace

\* One frame with elapsed = 1/60 s: pump, render, match
RunFrame ==
    /\ pc = "loop"
    /\ current_view \in {"game", "ship"}
    /\ trace.n < RunFrames
    /\ \E polled \in RunPolled(trace.n + 1) :
          LogicAndRendering(trace.n + 1, Fine(1000) \div 60, polled, RunSize, NoInput)
    /\ UNCHANGED <<ticks, before, last_second, fps>>

NextRun == RunFrame

SpecRun == InitRun /\ [][NextRun]_vars

\* The ship of the view that is current
TheShip == IF current_view = "game" THEN game.player ELSE ship.player

\* C21: a ship that starts at x = 64 and holds only the right key is, after n
\* frames of elapsed = 1/60 s in the 800x600 window, at x = 64 + 3 n with y
\* unchanged, so at x = 154 after 30 frames; GameView's player shows the
\* frame MidFast in each of these frames, and every frame returns None.
C21_RightRun ==
    trace.step = "frame" =>
        /\ trace.action = "None"
        /\ TheShip.rect.x = Fine(64000 + 3000 * trace.n)
        /\ trace.n = 30 => TheShip.rect.x = Fine(154000)
        /\ current_view = "game" =>
              /\ TheShip.rect.y = Fine((WINDOW_H * 1000 - PLAYER_H) \div 2)
              /\ TheShip.current = "MidFast"
        /\ current_view = "ship" => TheShip.rect.y = Fine(64000)

C21_Witness ==
    /\ trace.step = "frame" /\ trace.n = 30
    /\ current_view = "game"
    /\ events.held["key_right"]
    /\ game.player.rect.x = Fine(154000)
    /\ game.player.current = "MidFast"

(***************************************************************************)
(* Claims about the lifetimes of asteroids and explosions, checked under   *)
(* SpecGame                                                                *)
(***************************************************************************)
\* The asteroids of the frame's start, each moved left by vel * elapsed
MovedAsteroids ==
    [i \in DOMAIN trace.pre.asteroids |->
        [trace.pre.asteroids[i]
            EXCEPT !.rect.x = @ - trace.pre.asteroids[i].vel * trace.elapsed,
                   !.sprite = add_time(@, trace.elapsed)]]

RightOfExit(a) == a.rect.x > -ASTEROID_SIDE

\* C22: the update step of a frame moves every asteroid left by vel * dt and
\* removes exactly those whose x is then <= -ASTEROID_SIDE; the others stay,
\* in order, so an asteroid that collides with nothing is removed by the
\* first update that brings it to x <= -ASTEROID_SIDE and by none before.
\* An asteroid removed this way spawns no explosion: the frame's new
\* explosions are one per asteroid that passed the update and was hit.
C22_AsteroidExpiry ==
    Updated =>
      LET st == trace.stages
      IN  /\ st.upd_asteroids = SelectSeq(MovedAsteroids, RightOfExit)
          /\ Len(NewExplosions) = Len(SelectSeq(st.upd_asteroids, IsHit))
          /\ \A k \in DOMAIN NewExplosions :
                \E j \in DOMAIN st.upd_asteroids :
                    /\ RightOfExit(st.upd_asteroids[j])
                    /\ ExplosionOf(NewExplosions[k], st.upd_asteroids[j])

\* C22 witness: an asteroid that the first update left 0.1 px short of the
\* exit is removed by the second, with no explosion, and a free one stays
C22_Witness ==
    /\ Updated /\ trace.n = 2
    /\ \E i \in DOMAIN trace.pre.asteroids :
          /\ trace.pre.asteroids[i].rect.x = -95900
          /\ MovedAsteroids[i].rect.x <= -ASTEROID_SIDE
    /\ Len(trace.stages.upd_asteroids) = Len(trace.pre.asteroids) - 1
    /\ Len(trace.stages.col_asteroids) = Len(trace.stages.upd_asteroids)
    /\ Len(trace.stages.upd_asteroids) >= 1
    /\ NewExplosions = <<>>

\* The explosions of the frame's start, each aged by elapsed
AgedExplosions ==
    [i \in DOMAIN trace.pre.explosions |->
        [trace.pre.explosions[i]
            EXCEPT !.alive_since = @ + trace.elapsed,
                   !.sprite = add_time(@, trace.elapsed)]]

\* younger than 17/16 s = 1062.5 ms
StillBurning(e) == 2 * e.alive_since < 2125

\* C23: the update step of a frame ages every explosion by dt and removes
\* exactly those whose age is then >= 17/16 s; the others stay, in order, so
\* an explosion is removed by the first update that brings its age to 17/16 s
\* and by none before.  The explosions the collision pass spawns have age 0
\* at the end of their frame: they are first aged by the next frame's update.
C23_ExplosionExpiry ==
    Updated =>
      LET st == trace.stages
      IN  /\ st.upd_explosions = SelectSeq(AgedExplosions, StillBurning)
          /\ SubSeq(game.explosions, 1, Len(st.upd_explosions)) = st.upd_explosions
          /\ \A k \in DOMAIN NewExplosions :
                /\ NewExplosions[k].alive_since = 0
                /\ NewExplosions[k].sprite.current_time = 0
          /\ Len(NewExplosions) = Len(st.upd_asteroids) - Len(st.col_asteroids)

\* C23 witness: the second update removes an explosion the first had left at
\* 1062 ms, and ages one that the first frame's collision pass had spawned
C23_Witness ==
    /\ Updated /\ trace.n = 2
    /\ \E i \in DOMAIN trace.pre.explosions :
          /\ trace.pre.explosions[i].alive_since = 1062
          /\ ~StillBurning(AgedExplosions[i])
    /\ \E i \in DOMAIN trace.pre.explosions : trace.pre.explosions[i].alive_since = 0
    /\ \E j \in DOMAIN trace.stages.upd_explosions :
          trace.stages.upd_explosions[j].alive_since = trace.elapsed
    /\ \A j \in DOMAIN trace.stages.upd_explosions :
          trace.stages.upd_explosions[j].alive_since < 1062

(***************************************************************************)
(* Claims about the ship's displacement and sprite frame, checked under    *)
(* SpecPlayer                                                              *)
(***************************************************************************)
\* The net direction of an axis: -1, 0 or +1 (opposing keys cancel)
Net(neg, pos) == IF events.held[neg] = events.held[pos] THEN 0
                 ELSE IF events.held[neg] THEN -1 ELSE 1

NetX == Net("key_left", "key_right")
NetY == Net("key_up", "key_down")

Abs(v) == IF v < 0 THEN -v ELSE v

\* PLAYER_SPEED * elapsed of the last frame, in mpx
FullStep == PLAYER_SPEED * trace.elapsed

\* m is FullStep / sqrt(2), to the precision of the model (sqrt(2) ~ 1.4142)
IsDiagonalStep(m) == 14142 * m <= 10000 * FullStep /\ 10000 * FullStep < 14142 * (m + 1)

\* dx^2 + dy^2 = FullStep^2 up to the rounding of the model, computed in
\* units that keep the squares within 32 bits
SameSpeed(dx, dy) ==
    LET s == IF FullStep > 40000 THEN 100 ELSE 1
        a == dx \div s
        b == dy \div s
        f == FullStep \div s
    IN  Abs(a * a + b * b - f * f) <= 4 * f

\* C24: the displacement of a frame is a function of the four held keys and
\* elapsed: dx is NetX * m and dy is NetY * m, where m is PLAYER_SPEED *
\* elapsed when at most one axis has a net direction and that divided by
\* sqrt(2) when both have; so dx^2 + dy^2 = (PLAYER_SPEED * elapsed)^2
\* whenever the ship moves, with three or four keys held too.  The player's
\* rectangle after the frame is the old one moved by (dx, dy) and clamped.
C24_Displacement ==
    (trace.step = "frame" /\ trace.rendered \in {"game", "ship"}) =>
      LET dx == Player_dx(events, trace.elapsed)
          dy == Player_dy(events, trace.elapsed)
          m  == IF NetX # 0 THEN Abs(dx) ELSE Abs(dy)
      IN  /\ (NetX = 0 => dx = 0) /\ (NetX # 0 => dx = NetX * m)
          /\ (NetY = 0 => dy = 0) /\ (NetY # 0 => dy = NetY * m)
          /\ (NetX # 0 /\ NetY # 0) => IsDiagonalStep(m)
          /\ (NetX = 0) # (NetY = 0) => m = FullStep
          /\ (NetX # 0 \/ NetY # 0) => SameSpeed(dx, dy)
          /\ trace.stages.updated =>
                LET r == trace.pre.player.rect
                    c == move_inside([r EXCEPT !.x = @ + dx, !.y = @ + dy],
                                     movable_region(size))
                IN  c.some /\ game.player.rect = c.value

\* C24 witness: the ship went up and left by 2.036 px each in a 16 ms frame,
\* and with all four keys held in the next frame it stays where it is
C24_Witness ==
    /\ Updated /\ trace.n = 2
    /\ \A k \in {"key_left", "key_right", "key_up", "key_down"} : events.held[k]
    /\ trace.pre.player.rect.x = 64000 - 2036
    /\ trace.pre.player.rect.y = (size[2] * 1000 - PLAYER_H) \div 2 - 2036
    /\ game.player.rect = trace.pre.player.rect

Sign(v) == IF v < 0 THEN -1 ELSE IF v = 0 THEN 0 ELSE 1

\* The frame of the sprite sheet in row sy (Up, Mid, Down) and column sx
\* (Slow, Norm, Fast)
FrameAt(sx, sy) ==
    << <<"UpSlow", "UpNorm", "UpFast">>,
       <<"MidSlow", "MidNorm", "MidFast">>,
       <<"DownSlow", "DownNorm", "DownFast">> >>[sy + 2][sx + 2]

\* C25: the sprite frame the player's update selects is determined by the
\* signs of the frame's (dx, dy) before clamping: row Up, Mid or Down for
\* dy < 0, = 0, > 0 and column Slow, Norm or Fast for dx < 0, = 0, > 0.  The
\* nine cases are all there are: the unreachable!() arm is never selected,
\* whatever keys are held and for every elapsed >= 0.016.
C25_FrameBySigns ==
    Updated =>
      LET dx == Player_dx(events, trace.elapsed)
          dy == Player_dy(events, trace.elapsed)
      IN  /\ Sign(dx) = NetX /\ Sign(dy) = NetY
          /\ game.player.current = FrameAt(Sign(dx), Sign(dy))
          /\ game.player.current # "unreachable"
          /\ PlayerFrame(dx, dy) # "unreachable"

\* C25 witness: a ship held against the left wall by the clamp, with left
\* and up held, still shows UpSlow
C25_Witness ==
    /\ Updated /\ trace.n = 2
    /\ NetX = -1 /\ NetY = -1
    /\ trace.pre.player.rect.x = 0 /\ game.player.rect.x = 0
    /\ game.player.current = "UpSlow"

(***************************************************************************)
(* SpecSpawn: frames of GameView with the random spawn drawn over its      *)
(* range, in the window as created and in one resized to less than an      *)
(* asteroid's height (the window is created resizable, and the ship, 39 px *)
(* high, still fits).                                                      *)
(***************************************************************************)
SpawnSizes == { <<WINDOW_W, WINDOW_H>>, <<WINDOW_W, 90>> }

\* r = 3 spawns (bits 2, 5, 6 clear), r = 4 does not; the three f64 draws at
\* both ends of [0, 1)
SpawnInputs ==
    { [rnd |-> [r |-> r, p_fps |-> f, p_y |-> y, p_vel |-> v], selected |-> "game"] :
        r \in {3, 4}, f \in {0, 99}, y \in {0, 99}, v \in {0, 99} }

SpawnPolled == { <<>>, << <<"KeyDown", "key_space">> >> }

InitSpawn ==
    /\ pc = "loop"
    /\ before = 0 /\ last_second = 0 /\ fps = 0 /\ ticks = 0
    /\ events = Events_new
    /\ size = <<WINDOW_W, WINDOW_H>>
    /\ current_view = "game"
    /\ menu = Dropped /\ ship = Dropped
    /\ \E w \in BgWidths, a \in { <<>>, <<A_mid1>> }, b \in { <<>>, <<B_mid>> } :
          game = [GameView_with_backgrounds(size, BgSet_new(w))
                    EXCEPT !.asteroids = a, !.bullets = b]
    /\ trace = InitTrace

\* One frame of the GameView: pump, render, match
SpawnFrame ==
    /\ pc = "loop"
    /\ current_view = "game"
    /\ trace.n < MaxFrames
    /\ \E polled \in SpawnPolled, sz \in SpawnSizes, in \in SpawnInputs :
          LogicAndRendering(trace.n + 1, interval, polled, sz, in)
    /\ UNCHANGED <<ticks, before, last_second, fps>>

NextSpawn == SpawnFrame

SpecSpawn == InitSpawn /\ [][NextSpawn]_vars

\* C26: a frame's update adds at most one asteroid, after the collision
\* pass; the new asteroid has x = the current output width, y in
\* [0, height - ASTEROID_SIDE), vel in [50, 150) and fps in [10, 30), and it
\* ends its spawn frame as the factory made it: neither moved nor
\* collision-tested.
C26_SpawnRange ==
    Updated =>
      LET st == trace.stages
      IN  /\ Len(st.spawned) <= 1
          /\ game.asteroids = st.col_asteroids \o st.spawned
          /\ \A k \in DOMAIN st.spawned :
                LET a == st.spawned[k]
                IN  /\ a.rect.x = size[1] * 1000
                    /\ 0 <= a.rect.y /\ a.rect.y < size[2] * 1000 - ASTEROID_SIDE
                    /\ 50 <= a.vel /\ a.vel < 150
                    /\ \E mfps \in 10000..29999 : a.sprite = set_fps(Asteroid_factory, mfps)
                    /\ a.sprite.current_time = 0

(***************************************************************************)
(* Claims about what GameView::render returns, checked under Spec          *)
(***************************************************************************)
\* C27: GameView::render returns Quit when the quit signal is set; otherwise,
\* when escape was just pressed, ChangeView to a main menu that carries a
\* copy of the view's background set, at the same scroll positions.  Both
\* return before any update: player, bullets, asteroids, explosions and
\* backgrounds are as the frame found them.  Every other frame returns None
\* after running the update.
C27_RenderReturns ==
    (trace.step = "frame" /\ trace.rendered = "game") =>
        /\ events.now.quit =>
              /\ trace.action = "Quit"
              /\ ~trace.stages.updated
              /\ game = trace.pre
        /\ (~events.now.quit /\ events.now.key["key_escape"] = "SomeTrue") =>
              /\ trace.action = "ChangeView" /\ trace.to = "menu"
              /\ ~trace.stages.updated
              /\ current_view = "menu"
              /\ menu.bg = trace.pre.bg
        /\ (~events.now.quit /\ events.now.key["key_escape"] # "SomeTrue") =>
              /\ trace.action = "None"
              /\ trace.stages.updated

(***************************************************************************)
(* SpecEvents: Events::pump on every sequence of up to MaxPolled events    *)
(* about two of the keys, the quit signal, a resize and an event the       *)
(* macro does not match.                                                   *)
(***************************************************************************)
MaxPumps == 2

MaxPolled == 2

PumpKeys == {"key_space", "key_right"}

PumpEvents ==
    { <<"KeyDown", k>> : k \in PumpKeys } \cup { <<"KeyUp", k>> : k \in PumpKeys }
        \cup { <<"Quit">>, <<"Resized">>, <<"Other">> }

\* What poll_iter can yield in one pump
PumpPolled == UNION { [1..n -> PumpEvents] : n \in 0..MaxPolled }

\* Whether the sequence holds the event e
Polls(polled, e) == \E i \in DOMAIN polled : polled[i] = e

\* Ghost: for each key, how many pumps have reported Some(true) for it since
\* it was last up (at the end of a pump or within one)
PressesSeen(seen, polled, ev) ==
    [k \in PumpKeys |->
        IF ~ev.held[k] THEN 0
        ELSE (IF Polls(polled, <<"KeyUp", k>>) THEN 0 ELSE seen[k])
             + (IF ev.now.key[k] = "SomeTrue" THEN 1 ELSE 0)]

InitEvents ==
    /\ InitUnit
    /\ trace = [step |-> "init", n |-> 0, polled |-> <<>>, pre |-> events,
                seen |-> [k \in PumpKeys |-> 0]]

\* phi.events.pump(&mut renderer)
Pump ==
    /\ pc = "unit" /\ trace.n < MaxPumps
    /\ \E polled \in PumpPolled :
          /\ events' = Events_pump(events, polled, size)
          /\ trace' = [step |-> "pump", n |-> trace.n + 1, polled |-> polled,
                       pre |-> events,
                       seen |-> PressesSeen(trace.seen, polled, events')]
    /\ UNCHANGED <<pc, ticks, before, last_second, fps, size, current_view,
                   game, ship, menu>>

NextEvents == Pump

SpecEvents == InitEvents /\ [][NextEvents]_vars

\* The last event of the pump about key k: "KeyDown", "KeyUp" or "none"
RECURSIVE LastAbout(_, _)
LastAbout(polled, k) ==
    IF polled = <<>> THEN "none"
    ELSE LET e == polled[Len(polled)]
         IN  IF Len(e) = 2 /\ e[2] = k THEN e[1]
             ELSE LastAbout(SubSeq(polled, 1, Len(polled) - 1), k)

\* C28: after every pump, for each key, now.key = Some(true) implies the key
\* is held and Some(false) implies it is not: the last event of the pump
\* about the key decides both.  The edge fields start every pump reset: a key
\* with no event in the pump reads None, and quit and resize are set only by
\* this pump's events.  A KeyDown for a key that is already held gives no
\* edge, so between a press and its release at most one pump reports
\* Some(true) for the key.
C28_PumpEdges ==
    trace.step = "pump" =>
        /\ events.now.quit = Polls(trace.polled, <<"Quit">>)
        /\ events.now.resize.some = Polls(trace.polled, <<"Resized">>)
        /\ \A k \in Keys \ PumpKeys :
              events.now.key[k] = "None" /\ ~events.held[k]
        /\ \A k \in PumpKeys :
              LET last == LastAbout(trace.polled, k)
              IN  /\ events.now.key[k] = "SomeTrue" => events.held[k]
                  /\ events.now.key[k] = "SomeFalse" => ~events.held[k]
                  /\ last = "none" =>
                        /\ events.now.key[k] = "None"
                        /\ events.held[k] = trace.pre.held[k]
                  /\ last = "KeyDown" => events.held[k]
                  /\ last = "KeyUp" =>
                        events.now.key[k] = "SomeFalse" /\ ~events.held[k]
                  /\ (trace.pre.held[k] /\ ~Polls(trace.polled, <<"KeyUp", k>>)) =>
                        events.now.key[k] = "None"
                  /\ trace.seen[k] <= 1

\* C28 witness: the fire key, pressed in the first pump, is auto-repeated in
\* the second, which reports no press
C28_Witness ==
    /\ trace.step = "pump" /\ trace.n = 2
    /\ trace.pre.held["key_space"]
    /\ Polls(trace.polled, <<"KeyDown", "key_space">>)
    /\ events.held["key_space"]
    /\ events.now.key["key_space"] = "None"
    /\ trace.seen["key_space"] = 1

(***************************************************************************)
(* Claims about the state the collision pass leaves, checked under         *)
(* SpecGame                                                                *)
(***************************************************************************)
\* C30: right after the collision pass of a frame (before the fire edge and
\* the random spawn add anything) no remaining asteroid overlaps a remaining
\* bullet, and no remaining asteroid overlaps the player's rectangle.
C30_NoOverlapLeft ==
    Updated =>
      LET st == trace.stages
      IN  \A j \in DOMAIN st.col_asteroids :
            /\ \A i \in DOMAIN st.col_bullets :
                  /\ ~overlaps(st.col_asteroids[j].rect, Bullet_rect(st.col_bullets[i]))
                  /\ ~overlaps(Bullet_rect(st.col_bullets[i]), st.col_asteroids[j].rect)
            /\ ~overlaps(st.col_asteroids[j].rect, st.upd_player.value.rect)
            /\ ~overlaps(st.col_asteroids[j].rect, game.player.rect)

\* C30 witness: the pass removed an asteroid over the player and one over a
\* bullet, with that bullet, and left an asteroid and two bullets
C30_Witness ==
    /\ Updated
    /\ ~trace.stages.player_alive
    /\ Len(trace.stages.upd_asteroids) = 3 /\ Len(trace.stages.col_asteroids) = 1
    /\ Len(trace.stages.upd_bullets) = 3 /\ Len(trace.stages.col_bullets) = 2

(***************************************************************************)
(* SpecLive: a GameView that keeps processing frames in the window as      *)
(* created.  The loop never stops calling render, so the frame action is   *)
(* weakly fair.  Entities enter in the first MaxEntryFrames frames (the    *)
(* populations the view starts with, the fire edge, the random spawn);     *)
(* later frames add none, so that the state space is finite: the           *)
(* backgrounds wrap and everything else is bounded by the screen.          *)
(***************************************************************************)
MaxEntryFrames == 1

\* a regular frame and a hiccup of a second
LiveDts == { 16, 1000 }

\* The width of the background images (assets), in mpx
LiveBgWidths == { 160000 }

\* The frame time once no more entities enter
SteadyDt == CHOOSE d \in LiveDts : \A e \in LiveDts : d >= e

LivePolled ==
    { <<>>,
      << <<"KeyDown", "key_3">>, <<"KeyDown", "key_space">>, <<"KeyDown", "key_up">> >>,
      << <<"KeyDown", "key_2">>, <<"KeyDown", "key_space">>, <<"KeyDown", "key_left">> >> }

InitLive ==
    /\ pc = "loop"
    /\ before = 0 /\ last_second = 0 /\ fps = 0 /\ ticks = 0
    /\ events = Events_new
    /\ size = <<WINDOW_W, WINDOW_H>>
    /\ current_view = "game"
    /\ menu = Dropped /\ ship = Dropped
    /\ \E w \in LiveBgWidths,
          a \in { <<>>, <<A_player, A_mid1, A_free>> },
          b \in { <<>>, <<B_mid, B_sine, B_div>> } :
          game = [GameView_with_backgrounds(size, BgSet_new(w))
                    EXCEPT !.asteroids = a, !.bullets = b,
                           !.explosions = <<E_near, E_young>>]
    /\ trace = InitTrace

\* One frame of the GameView, of those in which entities may enter
EntryFrame ==
    /\ pc = "loop"
    /\ current_view = "game"
    /\ trace.n < MaxEntryFrames
    /\ \E elapsed \in LiveDts, polled \in LivePolled, in \in GameInputs :
          LogicAndRendering(trace.n + 1, elapsed, polled, size, in)
    /\ UNCHANGED <<ticks, before, last_second, fps>>

\* One frame of the GameView with no key event and no spawn
SteadyFrame ==
    /\ pc = "loop"
    /\ current_view = "game"
    /\ trace.n >= MaxEntryFrames
    /\ LogicAndRendering(MaxEntryFrames + 1, SteadyDt, <<>>, size, NoInput)
    /\ UNCHANGED <<ticks, before, last_second, fps>>

NextLive == EntryFrame \/ SteadyFrame

SpecLive == InitLive /\ [][NextLive]_vars /\ WF_vars(NextLive)

NoEntities ==
    game.bullets = <<>> /\ game.asteroids = <<>> /\ game.explosions = <<>>

\* C29: while GameView keeps processing frames under a fixed output size,
\* every bullet, asteroid and explosion that entered a population is
\* eventually removed: once no more enter, the three populations become
\* empty and stay empty.  No frame panics on the way.
C29_AllRemoved ==
    /\ [](pc = "loop" /\ trace.action # "Panic")
    /\ <>[]NoEntities

\* C29 witness: the last asteroid leaves in a steady frame, after a bullet
\* was fired and the player was hit
C29_Witness ==
    /\ trace.step = "frame" /\ trace.n > MaxEntryFrames
    /\ trace.pre.asteroids # <<>>
    /\ trace.player_hits >= 1
    /\ NoEntities

====
